---- MODULE Spec2Model ----
(***************************************************************************)
(* ApprovalController (packages/approval-controller/src/                   *)
(* ApprovalController.ts): the pending-approval store, the origin/type     *)
(* index, the callback registry, the promises handed to request creators   *)
(* and acceptors, and the approval-flow stack.                             *)
(*                                                                         *)
(* Every public method is one action.  The methods are written as          *)
(* operators on a record c that bundles the controller's fields, so that   *)
(* a method that calls another one (clear -> reject -> _delete) is the     *)
(* composition of the operators.  A thrown exception is the field          *)
(* c.thrown; the mutations made before the throw stay in c.                *)
(*                                                                         *)
(* JavaScript values are strings: Undefined stands for undefined, Null for *)
(* null, "" for the empty string, Arr for an array value.  The `time`      *)
(* field of a request (Date.now()) is not modelled: nothing reads it.      *)
(***************************************************************************)
EXTENDS Integers, Sequences, FiniteSets

\* ------------------------------------------------------------- bounds
\* The number of promises add may create in one behaviour.
MaxAdds == 2
\* The depth the flow stack may reach.
MaxFlows == 1
\* The depth the flow stack may reach when only flows are opened and closed.
MaxNesting == 4

\* ------------------------------------------------------------- values
Undefined == "undefined"
Null == "null"
Arr == "array"

Ids == {"a", "b"}
Origins == {"o1", "o2"}
Types == {"t1", "t2"}
FlowIds == {"f1"}
\* The flow ids of the behaviours that only open and close flows.
NestedFlowIds == {"f1", "f2", "f3"}
\* The value accept passes, the value resultCallbacks.success passes, the
\* error reject and clear pass, the error resultCallbacks.error passes.
Values == {"v1"}
AcceptValues == {"v2"}
Errors == {"e1"}
ResultErrors == {"e2"}

\* The option bags add is called with.  Valid bags: every origin, type and
\* id (Undefined: omitted, so nanoid() supplies it) with three payloads.
\* Invalid bags: one malformed field each.
Payloads ==
    {[requestData |-> Undefined, requestState |-> Undefined, expectsResult |-> Undefined],
     [requestData |-> "d1", requestState |-> "s1", expectsResult |-> "true"],
     [requestData |-> Undefined, requestState |-> Undefined, expectsResult |-> "false"]}

AddOptions(id, origin, type, payload) ==
    [id |-> id, origin |-> origin, type |-> type,
     requestData |-> payload.requestData,
     requestState |-> payload.requestState,
     expectsResult |-> payload.expectsResult]

ValidAddOptions ==
    {AddOptions(id, origin, type, payload) :
        id \in Ids \cup {Undefined}, origin \in Origins, type \in Types,
        payload \in Payloads}

InvalidAddOptions ==
    LET ok == [requestData |-> "d1", requestState |-> "s1", expectsResult |-> "true"]
    IN {AddOptions("", "o1", "t1", ok),
        AddOptions("a", "", "t1", ok),
        AddOptions("a", "o1", "", ok),
        AddOptions("a", "o1", "t1", [ok EXCEPT !.requestData = Arr]),
        AddOptions("a", "o1", "t1", [ok EXCEPT !.requestState = Arr])}

AddOptionsArgs == ValidAddOptions \cup InvalidAddOptions

\* The typesExcludedFromRateLimiting option: t1 is rate-limited (as every
\* type is under the default []), t2 is excluded.
ExclusionOptions == {{"t2"}}

\* JavaScript truthiness of a string-or-undefined value.
Truthy(x) == x # Undefined /\ x # "" /\ x # Null /\ x # "false"

\* ------------------------------------------------------------- maps
EmptyMap == [k \in {} |-> 0]
MapSet(m, k, v) == [x \in DOMAIN m \cup {k} |-> IF x = k THEN v ELSE m[x]]
MapDelete(m, k) == [x \in DOMAIN m \ {k} |-> m[x]]

RECURSIVE SumValues(_)
SumValues(m) ==
    IF DOMAIN m = {} THEN 0
    ELSE LET k == CHOOSE x \in DOMAIN m : TRUE
         IN m[k] + SumValues(MapDelete(m, k))

\* ------------------------------------------------------------- state
VARIABLES
    pendingApprovals,      \* state.pendingApprovals: id -> ApprovalRequest
    pendingApprovalCount,  \* state.pendingApprovalCount
    approvalFlows,         \* state.approvalFlows: sequence of flow ids
    _approvals,            \* Map id -> callbacks (index of the creator promise)
    _origins,              \* Map origin -> Map type -> count
    typesExcludedFromRateLimiting,
    creatorPromises,       \* the promises created by _add, in creation order
    acceptPromises         \* the promises created by accept, in creation order

vars == <<pendingApprovals, pendingApprovalCount, approvalFlows, _approvals,
          _origins, typesExcludedFromRateLimiting, creatorPromises,
          acceptPromises>>

NoError == [name |-> "none", info |-> <<>>]
Error(name, info) == [name |-> name, info |-> info]

\* The controller as one value, at the start of a public call.
Ctl ==
    [pendingApprovals |-> pendingApprovals,
     pendingApprovalCount |-> pendingApprovalCount,
     approvalFlows |-> approvalFlows,
     _approvals |-> _approvals,
     _origins |-> _origins,
     typesExcludedFromRateLimiting |-> typesExcludedFromRateLimiting,
     creatorPromises |-> creatorPromises,
     acceptPromises |-> acceptPromises,
     updates |-> 0,      \* this.update calls made by the call (one stateChange each)
     shown |-> 0,        \* _showApprovalRequest calls made by the call
     thrown |-> NoError,
     subscriber |-> <<>>, \* what the stateChange subscriber does, event by event
     observed |-> <<>>]   \* what the subscriber found at each event

Throw(c, name, info) == [c EXCEPT !.thrown = Error(name, info)]
Threw(c) == c.thrown.name # "none"

\* getDefaultState and the constructor's empty maps.
getDefaultState ==
    [pendingApprovals |-> EmptyMap, pendingApprovalCount |-> 0,
     approvalFlows |-> <<>>]

Init ==
    /\ pendingApprovals = getDefaultState.pendingApprovals
    /\ pendingApprovalCount = getDefaultState.pendingApprovalCount
    /\ approvalFlows = getDefaultState.approvalFlows
    /\ _approvals = EmptyMap
    /\ _origins = EmptyMap
    /\ typesExcludedFromRateLimiting \in ExclusionOptions
    /\ creatorPromises = <<>>
    /\ acceptPromises = <<>>

\* ------------------------------------------------------------- promises
\* A promise: its state and the value it settled with.  A creator promise
\* carries the id it was registered under and how often its resolve/reject
\* functions have been called; its fulfilment value is either the raw value
\* (envelope = FALSE) or {value, resultCallbacks}, resultCallbacks being the
\* index of the accept promise whose success/error it holds, 0 for undefined.
NewCreatorPromise(id) ==
    [id |-> id, state |-> "pending", envelope |-> FALSE, value |-> Undefined,
     resultCallbacks |-> 0, calls |-> 0]

NewAcceptPromise(id) ==
    [id |-> id, state |-> "pending", value |-> Undefined]

\* resolve(v) of a creator promise: the first settlement wins.
ResolveCreator(p, envelope, value, resultCallbacks) ==
    IF p.state = "pending"
    THEN [p EXCEPT !.state = "fulfilled", !.envelope = envelope,
                   !.value = value, !.resultCallbacks = resultCallbacks,
                   !.calls = @ + 1]
    ELSE [p EXCEPT !.calls = @ + 1]

\* reject(error) of a creator promise.
RejectCreator(p, error) ==
    IF p.state = "pending"
    THEN [p EXCEPT !.state = "rejected", !.value = error, !.calls = @ + 1]
    ELSE [p EXCEPT !.calls = @ + 1]

\* A slip: a settled promise takes the outcome of a later resolve or reject.
Settle_LastWins(p, state, value) == [p EXCEPT !.state = state, !.value = value]

\* resolve({value}) / reject(error) of an accept promise: a promise that is
\* settled ignores every later resolve and reject.
Settle(p, state, value) ==
    IF p.state = "pending"
    THEN [p EXCEPT !.state = state, !.value = value]
    ELSE p

\* What a stateChange subscriber finds when it calls back into the
\* controller: the state the event carries, the registry and the index.
Snapshot(c) ==
    [pendingApprovals |-> c.pendingApprovals,
     pendingApprovalCount |-> c.pendingApprovalCount,
     approvalFlows |-> c.approvalFlows,
     _approvals |-> c._approvals,
     _origins |-> c._origins]

\* What a subscriber does at one event: it looks at the controller and
\* returns, or it also calls add or reject.
Reaction(call, id, origin, type) == [call |-> call, id |-> id, origin |-> origin, type |-> type]
Observe == Reaction("none", Undefined, Undefined, Undefined)

\* The error a subscriber passes to reject.
SubscriberError == "e9"

\* update publishes to the subscriber, and the subscriber may call add and
\* reject, which call update again.
RECURSIVE add(_, _, _, _, _, _, _)
RECURSIVE reject(_, _, _)
RECURSIVE update(_)

\* The stateChange event: the subscriber runs inside the publish, before
\* update returns.  It catches what its own call throws.
Publish(c) ==
    IF c.subscriber = <<>> THEN c
    ELSE LET reaction == Head(c.subscriber)
             c1 == [c EXCEPT !.subscriber = Tail(@),
                             !.observed = Append(@, Snapshot(c))]
             c2 == IF reaction.call = "add"
                   THEN add(c1, reaction.origin, reaction.type, reaction.id,
                            Undefined, Undefined, Undefined)
                   ELSE IF reaction.call = "reject"
                   THEN reject(c1, reaction.id, SubscriberError)
                   ELSE c1
         IN [c2 EXCEPT !.thrown = c1.thrown]

\* this.update(recipe): BaseControllerV2 applies the recipe and publishes one
\* stateChange event.
update(c) == Publish([c EXCEPT !.updates = @ + 1])

\* ------------------------------------------------------------- queries
\* The value this.get(id) gives for an id that is not stored.
UndefinedRequest ==
    [id |-> Undefined, origin |-> Undefined, type |-> Undefined,
     requestData |-> Undefined, requestState |-> Undefined,
     expectsResult |-> FALSE]

get(c, id) ==
    IF id \in DOMAIN c.pendingApprovals THEN c.pendingApprovals[id]
    ELSE UndefinedRequest

\* this._origins.get(origin)?.get(type), undefined read as 0 (both callers
\* only test it for truthiness or apply `|| 0`).
OriginTypeCount(c, origin, type) ==
    IF origin \in DOMAIN c._origins /\ type \in DOMAIN c._origins[origin]
    THEN c._origins[origin][type]
    ELSE 0

\* The number of stored requests of a type (the loops of getApprovalCount and has).
CountOfType(c, type) ==
    Cardinality({id \in DOMAIN c.pendingApprovals :
                    c.pendingApprovals[id].type = type})

\* A query's outcome: the value returned, or the error thrown.
Returns(v) == [thrown |-> NoError, value |-> v]
Fails(name, info, v) == [thrown |-> Error(name, info), value |-> v]

\* A slip: for an origin alone the types of its map are counted, not their
\* counts added up.
getApprovalCount_CountsTypes(c, origin, type) ==
    IF ~Truthy(origin) /\ ~Truthy(type)
    THEN Fails("Error", <<"Must specify origin, type, or both.">>, 0)
    ELSE IF Truthy(origin) /\ Truthy(type)
    THEN Returns(OriginTypeCount(c, origin, type))
    ELSE IF Truthy(origin)
    THEN Returns(IF origin \in DOMAIN c._origins
                 THEN Cardinality(DOMAIN c._origins[origin]) ELSE 0)
    ELSE Returns(CountOfType(c, type))

\* A slip: for an origin and a type the origin's counts are added up.
getApprovalCount_PairCountsOrigin(c, origin, type) ==
    IF ~Truthy(origin) /\ ~Truthy(type)
    THEN Fails("Error", <<"Must specify origin, type, or both.">>, 0)
    ELSE IF Truthy(origin)
    THEN Returns(IF origin \in DOMAIN c._origins
                 THEN SumValues(c._origins[origin]) ELSE 0)
    ELSE Returns(CountOfType(c, type))

getApprovalCount(c, origin, type) ==
    IF ~Truthy(origin) /\ ~Truthy(type)
    THEN Fails("Error", <<"Must specify origin, type, or both.">>, 0)
    ELSE IF Truthy(origin) /\ Truthy(type)
    THEN Returns(OriginTypeCount(c, origin, type))
    ELSE IF Truthy(origin)
    THEN Returns(IF origin \in DOMAIN c._origins
                 THEN SumValues(c._origins[origin]) ELSE 0)
    ELSE Returns(CountOfType(c, type))

getTotalApprovalCount(c) == c.pendingApprovalCount

\* A slip: the origin is looked at before the id.
has_OriginFirst(c, id, origin, type) ==
    IF Truthy(origin)
    THEN IF Truthy(type)
         THEN Returns(OriginTypeCount(c, origin, type) # 0)
         ELSE Returns(origin \in DOMAIN c._origins)
    ELSE IF Truthy(id)
    THEN Returns(id \in DOMAIN c._approvals)
    ELSE IF Truthy(type)
    THEN Returns(CountOfType(c, type) > 0)
    ELSE Fails("Error",
               <<"Must specify a valid combination of id, origin, and type.">>,
               FALSE)

\* A slip: an origin and a type given with the id must be those of the
\* stored request.
has_MatchesAll(c, id, origin, type) ==
    IF Truthy(id)
    THEN Returns(/\ id \in DOMAIN c._approvals
                 /\ Truthy(origin) => get(c, id).origin = origin
                 /\ Truthy(type) => get(c, id).type = type)
    ELSE IF Truthy(type) /\ type = Arr
    THEN Fails("Error", <<"May not specify non-string type.">>, FALSE)
    ELSE IF Truthy(origin)
    THEN IF origin = Arr
         THEN Fails("Error", <<"May not specify non-string origin.">>, FALSE)
         ELSE IF Truthy(type)
         THEN Returns(OriginTypeCount(c, origin, type) # 0)
         ELSE Returns(origin \in DOMAIN c._origins)
    ELSE IF Truthy(type)
    THEN Returns(CountOfType(c, type) > 0)
    ELSE Fails("Error",
               <<"Must specify a valid combination of id, origin, and type.">>,
               FALSE)

has(c, id, origin, type) ==
    IF Truthy(id)
    THEN IF id = Arr
         THEN Fails("Error", <<"May not specify non-string id.">>, FALSE)
         ELSE Returns(id \in DOMAIN c._approvals)
    ELSE IF Truthy(type) /\ type = Arr
    THEN Fails("Error", <<"May not specify non-string type.">>, FALSE)
    ELSE IF Truthy(origin)
    THEN IF origin = Arr
         THEN Fails("Error", <<"May not specify non-string origin.">>, FALSE)
         ELSE IF Truthy(type)
         THEN Returns(OriginTypeCount(c, origin, type) # 0)
         ELSE Returns(origin \in DOMAIN c._origins)
    ELSE IF Truthy(type)
    THEN Returns(CountOfType(c, type) > 0)
    ELSE Fails("Error",
               <<"Must specify a valid combination of id, origin, and type.">>,
               FALSE)

\* ------------------------------------------------------------- add
\* nanoid(): an id no pending request carries.
nanoid(c) == Ids \ DOMAIN c._approvals

\* The message _validateAddParams throws with, "none" when the parameters pass.
ValidationMessage(c, id, origin, type, requestData, requestState) ==
    IF ~Truthy(id) THEN "Must specify non-empty string id."
    ELSE IF id \in DOMAIN c._approvals THEN "Approval request already exists."
    ELSE IF ~Truthy(origin) THEN "Must specify non-empty string origin."
    ELSE IF ~Truthy(type) THEN "Must specify non-empty string type."
    ELSE IF Truthy(requestData) /\ requestData = Arr
    THEN "Request data must be a plain object if specified."
    ELSE IF Truthy(requestState) /\ requestState = Arr
    THEN "Request state must be a plain object if specified."
    ELSE "none"

_validateAddParams(c, id, origin, type, requestData, requestState) ==
    LET errorMessage ==
            ValidationMessage(c, id, origin, type, requestData, requestState)
    IN IF errorMessage # "none"
       THEN Throw(c, "rpc.internal", <<errorMessage>>)
       ELSE c

\* A slip: the count of the origin's type is set to 1, not raised by 1.
_addPendingApprovalOrigin_ResetsCount(c, origin, type) ==
    LET originMap == IF origin \in DOMAIN c._origins THEN c._origins[origin]
                     ELSE EmptyMap
    IN [c EXCEPT !._origins = MapSet(@, origin, MapSet(originMap, type, 1))]

_addPendingApprovalOrigin(c, origin, type) ==
    LET originMap == IF origin \in DOMAIN c._origins THEN c._origins[origin]
                     ELSE EmptyMap
        currentValue == IF type \in DOMAIN originMap THEN originMap[type] ELSE 0
    IN [c EXCEPT !._origins =
            MapSet(@, origin, MapSet(originMap, type, currentValue + 1))]

\* A slip: storing a request writes the whole map anew, and the requests
\* already stored lose their requestState.
_addToStore_ResetsOthers(c, id, origin, type, requestData, requestState, expectsResult) ==
    LET approval ==
            [id |-> id, origin |-> origin, type |-> type,
             requestData |-> IF Truthy(requestData) THEN requestData ELSE Null,
             requestState |-> IF Truthy(requestState) THEN requestState ELSE Null,
             expectsResult |-> Truthy(expectsResult)]
        others == [x \in DOMAIN c.pendingApprovals |->
                      [c.pendingApprovals[x] EXCEPT !.requestState = Null]]
        stored == MapSet(others, id, approval)
    IN update([c EXCEPT !.pendingApprovals = stored,
                        !.pendingApprovalCount = Cardinality(DOMAIN stored)])

_addToStore(c, id, origin, type, requestData, requestState, expectsResult) ==
    LET approval ==
            [id |-> id, origin |-> origin, type |-> type,
             requestData |-> IF Truthy(requestData) THEN requestData ELSE Null,
             requestState |-> IF Truthy(requestState) THEN requestState ELSE Null,
             expectsResult |-> Truthy(expectsResult)]
        stored == MapSet(c.pendingApprovals, id, approval)
    IN update([c EXCEPT !.pendingApprovals = stored,
                        !.pendingApprovalCount = Cardinality(DOMAIN stored)])

\* A slip in the duplicate check: the exclusion test is not negated.
IsDuplicate_NotNegated(c, origin, type) ==
    /\ type \in c.typesExcludedFromRateLimiting
    /\ has(c, Undefined, origin, type).value

\* A slip in the duplicate check: the check is never taken.
IsDuplicate_Never(c, origin, type) == FALSE

\* A slip in the duplicate check: the exclusion list is not consulted.
IsDuplicate_IgnoresExclusion(c, origin, type) ==
    has(c, Undefined, origin, type).value

\* The condition of the duplicate check (lines 723-726).
IsDuplicate(c, origin, type) ==
    /\ type \notin c.typesExcludedFromRateLimiting
    /\ has(c, Undefined, origin, type).value

\* A slip in _add: the request is stored, and the event published, before
\* the callbacks are registered and the index is raised.
_add_StoreFirst(c, origin, type, id, requestData, requestState, expectsResult) ==
    LET v == _validateAddParams(c, id, origin, type, requestData, requestState)
    IN IF Threw(v) THEN v
       ELSE IF IsDuplicate(c, origin, type)
       THEN Throw(c, "rpc.resourceUnavailable", <<origin, type>>)
       ELSE LET p == Len(c.creatorPromises) + 1
                c1 == _addToStore(c, id, origin, type, requestData, requestState,
                                  expectsResult)
                c2 == [c1 EXCEPT
                         !.creatorPromises = Append(@, NewCreatorPromise(id)),
                         !._approvals = MapSet(@, id, p)]
            IN _addPendingApprovalOrigin(c2, origin, type)

\* A slip in _add: the duplicate check runs before the validation.
_add_DuplicateFirst(c, origin, type, id, requestData, requestState, expectsResult) ==
    LET v == _validateAddParams(c, id, origin, type, requestData, requestState)
    IN IF IsDuplicate(c, origin, type)
       THEN Throw(c, "rpc.resourceUnavailable", <<origin, type>>)
       ELSE IF Threw(v) THEN v
       ELSE LET p == Len(c.creatorPromises) + 1
                c1 == [c EXCEPT
                         !.creatorPromises = Append(@, NewCreatorPromise(id)),
                         !._approvals = MapSet(@, id, p)]
                c2 == _addPendingApprovalOrigin(c1, origin, type)
            IN _addToStore(c2, id, origin, type, requestData, requestState,
                           expectsResult)

\* A slip in _add: an id that was used before is registered with the
\* callbacks of its first promise.
_add_ReusesCallbacks(c, origin, type, id, requestData, requestState, expectsResult) ==
    LET v == _validateAddParams(c, id, origin, type, requestData, requestState)
    IN IF Threw(v) THEN v
       ELSE IF IsDuplicate(c, origin, type)
       THEN Throw(c, "rpc.resourceUnavailable", <<origin, type>>)
       ELSE LET promises == Append(c.creatorPromises, NewCreatorPromise(id))
                p == CHOOSE i \in DOMAIN promises :
                        /\ promises[i].id = id
                        /\ \A j \in DOMAIN promises : promises[j].id = id => i <= j
                c1 == [c EXCEPT !.creatorPromises = promises,
                                !._approvals = MapSet(@, id, p)]
                c2 == _addPendingApprovalOrigin(c1, origin, type)
            IN _addToStore(c2, id, origin, type, requestData, requestState,
                           expectsResult)

\* _add with the id default already applied.  The promise executor runs
\* synchronously, so the promise is registered when _add returns.
_add(c, origin, type, id, requestData, requestState, expectsResult) ==
    LET v == _validateAddParams(c, id, origin, type, requestData, requestState)
    IN IF Threw(v) THEN v
       ELSE IF IsDuplicate(c, origin, type)
       THEN Throw(c, "rpc.resourceUnavailable", <<origin, type>>)
       ELSE LET p == Len(c.creatorPromises) + 1
                c1 == [c EXCEPT
                         !.creatorPromises = Append(@, NewCreatorPromise(id)),
                         !._approvals = MapSet(@, id, p)]
                c2 == _addPendingApprovalOrigin(c1, origin, type)
            IN _addToStore(c2, id, origin, type, requestData, requestState,
                           expectsResult)

\* ------------------------------------------------------------- removal
\* A slip in the index update: the origin is dropped when the removed type's
\* count is 1, whatever the origin's other types hold.
UpdateOriginsOnDelete_ByTypeCount(c, origin, type) ==
    LET originMap == c._origins[origin]
        originTypeCount == IF type \in DOMAIN originMap THEN originMap[type] ELSE 0
    IN IF originTypeCount = 1
       THEN [c EXCEPT !._origins = MapDelete(@, origin)]
       ELSE [c EXCEPT !._origins =
                MapSet(@, origin, MapSet(originMap, type, originTypeCount - 1))]

\* A slip in the index update: the origin's map is kept when its last
\* request goes.
UpdateOriginsOnDelete_KeepsOrigin(c, origin, type) ==
    LET originMap == c._origins[origin]
        originTypeCount == IF type \in DOMAIN originMap THEN originMap[type] ELSE 0
    IN [c EXCEPT !._origins =
            MapSet(@, origin, MapSet(originMap, type, originTypeCount - 1))]

\* Lines 863-871 of _delete, for an origin that has a map.  A type the map
\* lacks reads as undefined, and undefined - 1 is NaN: here 0 - 1, never a count.
UpdateOriginsOnDelete(c, origin, type) ==
    LET originMap == c._origins[origin]
        originTotalCount == getApprovalCount(c, origin, Undefined).value
        originTypeCount == IF type \in DOMAIN originMap THEN originMap[type] ELSE 0
    IN IF originTotalCount = 1
       THEN [c EXCEPT !._origins = MapDelete(@, origin)]
       ELSE [c EXCEPT !._origins =
                MapSet(@, origin, MapSet(originMap, type, originTypeCount - 1))]

\* A slip in the update recipe: the count is taken before the entry is deleted.
DeleteFromStore_StaleCount(c, id) ==
    LET stored == MapDelete(c.pendingApprovals, id)
    IN update([c EXCEPT !.pendingApprovals = stored,
                        !.pendingApprovalCount =
                            Cardinality(DOMAIN c.pendingApprovals)])

\* A slip: the entry is deleted without an update, so no event is published.
DeleteFromStore_Silent(c, id) ==
    LET stored == MapDelete(c.pendingApprovals, id)
    IN [c EXCEPT !.pendingApprovals = stored,
                 !.pendingApprovalCount = Cardinality(DOMAIN stored)]

\* The update recipe of _delete (lines 873-878).
DeleteFromStore(c, id) ==
    LET stored == MapDelete(c.pendingApprovals, id)
    IN update([c EXCEPT !.pendingApprovals = stored,
                        !.pendingApprovalCount = Cardinality(DOMAIN stored)])

\* A slip: the callbacks stay in the registry.
DeleteCallbacks_Kept(c, id) == c

\* this._approvals.delete(id) (line 856).
DeleteCallbacks(c, id) == [c EXCEPT !._approvals = MapDelete(@, id)]

_delete(c, id) ==
    LET c1 == DeleteCallbacks(c, id)
    IN IF id \notin DOMAIN c1.pendingApprovals
       THEN Throw(c1, "TypeError", <<"pendingApprovals[id] is undefined">>)
       ELSE
       LET origin == c1.pendingApprovals[id].origin
           type == c1.pendingApprovals[id].type
       IN IF origin \notin DOMAIN c1._origins
          THEN Throw(c1, "TypeError", <<"originMap is undefined">>)
          ELSE DeleteFromStore(UpdateOriginsOnDelete(c1, origin, type), id)

\* A slip: the callbacks returned are those of the registry's first entry.
_deleteApprovalAndGetCallbacks_WrongCallbacks(c, id) ==
    IF id \in DOMAIN c._approvals
    THEN LET d == _delete(c, id)
         IN [c |-> d, callbacks |-> IF Threw(d) THEN 0
                                    ELSE c._approvals[CHOOSE x \in DOMAIN c._approvals :
                                            \A y \in DOMAIN c._approvals :
                                                c._approvals[x] <= c._approvals[y]]]
    ELSE [c |-> Throw(c, "ApprovalRequestNotFoundError", <<id>>), callbacks |-> 0]

\* The controller after the call and the callbacks returned (0 when it threw).
_deleteApprovalAndGetCallbacks(c, id) ==
    IF id \notin DOMAIN c._approvals
    THEN [c |-> Throw(c, "ApprovalRequestNotFoundError", <<id>>), callbacks |-> 0]
    ELSE LET d == _delete(c, id)
         IN [c |-> d, callbacks |-> IF Threw(d) THEN 0 ELSE c._approvals[id]]

\* ------------------------------------------------------------- public methods
add(c, origin, type, id, requestData, requestState, expectsResult) ==
    _add(c, origin, type, id, requestData, requestState, expectsResult)

\* hookThrows: whether the injected showApprovalRequest function throws.
_showApprovalRequest(c, hookThrows) ==
    IF hookThrows
    THEN Throw([c EXCEPT !.shown = @ + 1], "HookError", <<>>)
    ELSE [c EXCEPT !.shown = @ + 1]

\* A slip: the hook is called before the request is added.
addAndShowApprovalRequest_ShowsFirst(c, origin, type, id, requestData, requestState, expectsResult, hookThrows) ==
    LET s == _showApprovalRequest(c, hookThrows)
    IN IF Threw(s) THEN s
       ELSE _add(s, origin, type, id, requestData, requestState, expectsResult)

\* A slip: a hook that throws undoes the registration.
addAndShowApprovalRequest_RollsBack(c, origin, type, id, requestData, requestState, expectsResult, hookThrows) ==
    LET promise == _add(c, origin, type, id, requestData, requestState,
                        expectsResult)
    IN IF Threw(promise) THEN promise
       ELSE IF hookThrows
       THEN Throw([c EXCEPT !.shown = @ + 1, !.updates = promise.updates],
                  "HookError", <<>>)
       ELSE _showApprovalRequest(promise, hookThrows)

addAndShowApprovalRequest(c, origin, type, id, requestData, requestState, expectsResult, hookThrows) ==
    LET promise == _add(c, origin, type, id, requestData, requestState,
                        expectsResult)
    IN IF Threw(promise) THEN promise
       ELSE _showApprovalRequest(promise, hookThrows)

\* A slip: the shape of the result follows the call (waitForResult), not the
\* stored expectsResult flag.
AcceptResolve_ByCallShape(c, callbacks, approval, value, waitForResult, k) ==
    LET resultValue == IF waitForResult THEN k ELSE 0
    IN [c EXCEPT !.creatorPromises[callbacks] =
            IF waitForResult
            THEN ResolveCreator(@, TRUE, value, resultValue)
            ELSE ResolveCreator(@, FALSE, value, 0)]

\* A slip: the envelope always carries the result callbacks.
AcceptResolve_AlwaysCallbacks(c, callbacks, approval, value, waitForResult, k) ==
    [c EXCEPT !.creatorPromises[callbacks] =
        IF approval.expectsResult
        THEN ResolveCreator(@, TRUE, value, k)
        ELSE ResolveCreator(@, FALSE, value, 0)]

\* A slip: the test of waitForResult is inverted.
AcceptResolve_Inverted(c, callbacks, approval, value, waitForResult, k) ==
    LET resultValue == IF waitForResult THEN 0 ELSE k
    IN [c EXCEPT !.creatorPromises[callbacks] =
            IF approval.expectsResult
            THEN ResolveCreator(@, TRUE, value, resultValue)
            ELSE ResolveCreator(@, FALSE, value, 0)]

\* The value accept resolves the creator promise with (lines 596-602); k is
\* the index of the promise accept returns, whose resolve and reject the
\* result callbacks are.
AcceptResolve(c, callbacks, approval, value, waitForResult, k) ==
    LET resultValue == IF waitForResult THEN k ELSE 0
    IN [c EXCEPT !.creatorPromises[callbacks] =
            IF approval.expectsResult
            THEN ResolveCreator(@, TRUE, value, resultValue)
            ELSE ResolveCreator(@, FALSE, value, 0)]

\* A slip: the acceptor's promise resolves with the accepted value.
AcceptExecutor_ResolvesWithValue(c, id, callbacks, approval, value, waitForResult, k) ==
    IF waitForResult /\ ~approval.expectsResult
    THEN [c EXCEPT !.acceptPromises[k] =
            Settle(@, "rejected", "ApprovalRequestNoResultSupportError")]
    ELSE LET c1 == AcceptResolve(c, callbacks, approval, value, waitForResult, k)
         IN IF ~waitForResult
            THEN [c1 EXCEPT !.acceptPromises[k] = Settle(@, "fulfilled", value)]
            ELSE c1

\* A slip: the acceptor's promise resolves at once also under waitForResult.
AcceptExecutor_AlwaysResolves(c, id, callbacks, approval, value, waitForResult, k) ==
    IF waitForResult /\ ~approval.expectsResult
    THEN [c EXCEPT !.acceptPromises[k] =
            Settle(@, "rejected", "ApprovalRequestNoResultSupportError")]
    ELSE LET c1 == AcceptResolve(c, callbacks, approval, value, waitForResult, k)
         IN [c1 EXCEPT !.acceptPromises[k] = Settle(@, "fulfilled", Undefined)]

\* A slip: the executor lacks the no-result-support branch.
AcceptExecutor_NoSupportCheckDropped(c, id, callbacks, approval, value, waitForResult, k) ==
    LET c1 == AcceptResolve(c, callbacks, approval, value, waitForResult, k)
    IN IF ~waitForResult
       THEN [c1 EXCEPT !.acceptPromises[k] = Settle(@, "fulfilled", Undefined)]
       ELSE c1

\* The executor of the promise accept returns (lines 585-607); k is the
\* index of that promise.
AcceptExecutor(c, id, callbacks, approval, value, waitForResult, k) ==
    IF waitForResult /\ ~approval.expectsResult
    THEN [c EXCEPT !.acceptPromises[k] =
            Settle(@, "rejected", "ApprovalRequestNoResultSupportError")]
    ELSE LET c1 == AcceptResolve(c, callbacks, approval, value, waitForResult, k)
         IN IF ~waitForResult
            THEN [c1 EXCEPT !.acceptPromises[k] =
                    Settle(@, "fulfilled", Undefined)]
            ELSE c1

\* A slip: accept also resolves the promises earlier accepts of the same id
\* returned.
accept_ResolvesEarlier(c, id, value, waitForResult) ==
    LET approval == get(c, id)
        requestPromise == _deleteApprovalAndGetCallbacks(c, id)
    IN IF Threw(requestPromise.c) THEN requestPromise.c
       ELSE LET k == Len(c.acceptPromises) + 1
                c1 == [requestPromise.c EXCEPT
                         !.acceptPromises =
                             Append([j \in DOMAIN @ |->
                                        IF @[j].id = id
                                        THEN Settle(@[j], "fulfilled", Undefined)
                                        ELSE @[j]],
                                    NewAcceptPromise(id))]
            IN AcceptExecutor(c1, id, requestPromise.callbacks, approval, value,
                              waitForResult, k)

\* waitForResult: options?.waitForResult, FALSE also for a missing option.
accept(c, id, value, waitForResult) ==
    LET approval == get(c, id)
        requestPromise == _deleteApprovalAndGetCallbacks(c, id)
    IN IF Threw(requestPromise.c) THEN requestPromise.c
       ELSE LET k == Len(c.acceptPromises) + 1
                c1 == [requestPromise.c EXCEPT
                         !.acceptPromises = Append(@, NewAcceptPromise(id))]
            IN AcceptExecutor(c1, id, requestPromise.callbacks, approval, value,
                              waitForResult, k)

\* resultCallbacks.success / resultCallbacks.error of accept promise k.
ResultCallbackSuccess(c, k, acceptValue) ==
    [c EXCEPT !.acceptPromises[k] = Settle(@, "fulfilled", acceptValue)]

ResultCallbackError(c, k, error) ==
    [c EXCEPT !.acceptPromises[k] = Settle(@, "rejected", error)]

\* A slip: reject calls the resolve callback.
reject_Resolves(c, id, error) ==
    LET d == _deleteApprovalAndGetCallbacks(c, id)
    IN IF Threw(d.c) THEN d.c
       ELSE [d.c EXCEPT !.creatorPromises[d.callbacks] =
                ResolveCreator(@, FALSE, error, 0)]

reject(c, id, error) ==
    LET d == _deleteApprovalAndGetCallbacks(c, id)
    IN IF Threw(d.c) THEN d.c
       ELSE [d.c EXCEPT !.creatorPromises[d.callbacks] =
                RejectCreator(@, error)]

\* The first key of this._approvals.keys(): a Map iterates in insertion
\* order, and the callbacks' promise indices grow with insertion.
FirstKey(m) == CHOOSE id \in DOMAIN m : \A other \in DOMAIN m : m[id] <= m[other]

\* A slip in clear: the pending requests are not rejected one by one.
RejectAll_Skipped(c, rejectionError) == c

\* A slip in clear: the loop stops after the first key.
RejectAll_FirstOnly(c, rejectionError) ==
    IF DOMAIN c._approvals = {} THEN c
    ELSE reject(c, FirstKey(c._approvals), rejectionError)

\* A slip in clear: the loop runs over the keys the registry had when clear
\* was called, so a request added while it runs is not rejected.
RECURSIVE RejectEach(_, _, _)
RejectEach(c, keys, rejectionError) ==
    IF DOMAIN keys = {} THEN c
    ELSE LET id == FirstKey(keys)
             c1 == reject(c, id, rejectionError)
         IN IF Threw(c1) THEN c1
            ELSE RejectEach(c1, MapDelete(keys, id), rejectionError)

RejectAll_Snapshot(c, rejectionError) == RejectEach(c, c._approvals, rejectionError)

\* The loop of clear (lines 628-630).
RECURSIVE RejectAll(_, _)
RejectAll(c, rejectionError) ==
    IF DOMAIN c._approvals = {} THEN c
    ELSE LET c1 == reject(c, FirstKey(c._approvals), rejectionError)
         IN IF Threw(c1) THEN c1 ELSE RejectAll(c1, rejectionError)

\* A slip: the reset of clear also empties the flow stack.
clear_EndsFlows(c, rejectionError) ==
    LET c1 == RejectAll(c, rejectionError)
    IN IF Threw(c1) THEN c1
       ELSE update([c1 EXCEPT !._origins = EmptyMap,
                              !.pendingApprovals = EmptyMap,
                              !.pendingApprovalCount = 0,
                              !.approvalFlows = <<>>])

clear(c, rejectionError) ==
    LET c1 == RejectAll(c, rejectionError)
    IN IF Threw(c1) THEN c1
       ELSE update([c1 EXCEPT !._origins = EmptyMap,
                              !.pendingApprovals = EmptyMap,
                              !.pendingApprovalCount = 0])

\* A slip: the new value goes to requestData as well.
updateRequestState_ReplacesData(c, id, requestState) ==
    IF id \notin DOMAIN c.pendingApprovals
    THEN Throw(c, "ApprovalRequestNotFoundError", <<id>>)
    ELSE update([c EXCEPT !.pendingApprovals[id].requestState = requestState,
                          !.pendingApprovals[id].requestData = requestState])

\* A slip: an id that is not stored gets an entry instead of the error.
updateRequestState_Unchecked(c, id, requestState) ==
    update([c EXCEPT !.pendingApprovals =
        MapSet(@, id, [get(c, id) EXCEPT !.requestState = requestState])])

updateRequestState(c, id, requestState) ==
    IF id \notin DOMAIN c.pendingApprovals
    THEN Throw(c, "ApprovalRequestNotFoundError", <<id>>)
    ELSE update([c EXCEPT !.pendingApprovals[id].requestState = requestState])

\* A slip: the new frame goes to the bottom of the stack.
startFlow_Unshift(c, id, hookThrows) ==
    LET c1 == update([c EXCEPT !.approvalFlows = <<id>> \o @])
    IN _showApprovalRequest(c1, hookThrows)

\* A slip: an id that is on the stack is not pushed again.
startFlow_NoDuplicates(c, id, hookThrows) ==
    LET c1 == IF \E i \in DOMAIN c.approvalFlows : c.approvalFlows[i] = id
              THEN update(c)
              ELSE update([c EXCEPT !.approvalFlows = Append(@, id)])
    IN _showApprovalRequest(c1, hookThrows)

\* startFlow with the id default already applied.
startFlow(c, id, hookThrows) ==
    LET c1 == update([c EXCEPT !.approvalFlows = Append(@, id)])
    IN _showApprovalRequest(c1, hookThrows)

\* A slip: the id is looked for in the whole stack, not on its top.
endFlow_AnyFrame(c, id) ==
    IF Len(c.approvalFlows) = 0
    THEN Throw(c, "NoApprovalFlowsError", <<>>)
    ELSE IF \A i \in DOMAIN c.approvalFlows : c.approvalFlows[i] # id
         THEN Throw(c, "EndInvalidFlowError", <<id>> \o c.approvalFlows)
         ELSE update([c EXCEPT !.approvalFlows = SubSeq(@, 1, Len(@) - 1)])

endFlow(c, id) ==
    IF Len(c.approvalFlows) = 0
    THEN Throw(c, "NoApprovalFlowsError", <<>>)
    ELSE LET currentFlow == c.approvalFlows[Len(c.approvalFlows)]
         IN IF id # currentFlow
            THEN Throw(c, "EndInvalidFlowError", <<id>> \o c.approvalFlows)
            ELSE update([c EXCEPT !.approvalFlows =
                            SubSeq(@, 1, Len(@) - 1)])

\* ------------------------------------------------------------- actions
\* What a public call leaves behind, whether it returned or threw: the
\* controller's fields and the promises.  The error thrown, the promise
\* returned and the events published are read off the method's operator.
Return(c) ==
    /\ pendingApprovals' = c.pendingApprovals
    /\ pendingApprovalCount' = c.pendingApprovalCount
    /\ approvalFlows' = c.approvalFlows
    /\ _approvals' = c._approvals
    /\ _origins' = c._origins
    /\ typesExcludedFromRateLimiting' = c.typesExcludedFromRateLimiting
    /\ creatorPromises' = c.creatorPromises
    /\ acceptPromises' = c.acceptPromises

\* The id _add works with: the argument, or nanoid() when it is omitted.
IdDefault(c, id) == IF id = Undefined THEN nanoid(c) ELSE {id}

Add(opts) ==
    /\ Len(creatorPromises) < MaxAdds
    /\ \E id \in IdDefault(Ctl, opts.id) :
         Return(add(Ctl, opts.origin, opts.type, id, opts.requestData,
                    opts.requestState, opts.expectsResult))

AddAndShowApprovalRequest(opts, hookThrows) ==
    /\ Len(creatorPromises) < MaxAdds
    /\ \E id \in IdDefault(Ctl, opts.id) :
         Return(addAndShowApprovalRequest(Ctl, opts.origin, opts.type, id,
                                          opts.requestData, opts.requestState,
                                          opts.expectsResult, hookThrows))

Accept(id, value, waitForResult) == Return(accept(Ctl, id, value, waitForResult))

Reject(id, error) == Return(reject(Ctl, id, error))

Clear(rejectionError) == Return(clear(Ctl, rejectionError))

UpdateRequestState(id, requestState) ==
    Return(updateRequestState(Ctl, id, requestState))

StartFlow(idArg, hookThrows) ==
    /\ Len(approvalFlows) < MaxFlows
    /\ \E id \in (IF idArg = Undefined THEN FlowIds ELSE {idArg}) :
         Return(startFlow(Ctl, id, hookThrows))

EndFlow(id) == Return(endFlow(Ctl, id))

\* The resultCallbacks a creator holds: those delivered in the envelope its
\* promise was fulfilled with.
DeliveredResultCallbacks ==
    {creatorPromises[p].resultCallbacks : p \in
        {q \in DOMAIN creatorPromises :
            /\ creatorPromises[q].state = "fulfilled"
            /\ creatorPromises[q].envelope
            /\ creatorPromises[q].resultCallbacks # 0}}

ResultSuccess(k, acceptValue) ==
    /\ k \in DeliveredResultCallbacks
    /\ Return(ResultCallbackSuccess(Ctl, k, acceptValue))

ResultError(k, error) ==
    /\ k \in DeliveredResultCallbacks
    /\ Return(ResultCallbackError(Ctl, k, error))

Next ==
    \/ \E opts \in AddOptionsArgs : Add(opts)
    \/ \E opts \in AddOptionsArgs, hookThrows \in BOOLEAN :
            AddAndShowApprovalRequest(opts, hookThrows)
    \/ \E id \in Ids, value \in Values, waitForResult \in BOOLEAN :
            Accept(id, value, waitForResult)
    \/ \E id \in Ids, error \in Errors : Reject(id, error)
    \/ \E error \in Errors : Clear(error)
    \/ \E id \in Ids, requestState \in {"s2"} :
            UpdateRequestState(id, requestState)
    \/ \E id \in FlowIds \cup {Undefined}, hookThrows \in BOOLEAN :
            StartFlow(id, hookThrows)
    \/ \E id \in FlowIds : EndFlow(id)
    \/ \E k \in DOMAIN acceptPromises, v \in AcceptValues : ResultSuccess(k, v)
    \/ \E k \in DOMAIN acceptPromises, e \in ResultErrors : ResultError(k, e)

Spec == Init /\ [][Next]_vars

\* The operations on requests alone.  approvalFlows is written by startFlow
\* and endFlow only and read by no operation on requests, so the behaviours
\* of the request operations are those of Spec with the flow stack left empty.
NextRequests ==
    \/ \E opts \in AddOptionsArgs : Add(opts)
    \/ \E opts \in AddOptionsArgs, hookThrows \in BOOLEAN :
            AddAndShowApprovalRequest(opts, hookThrows)
    \/ \E id \in Ids, value \in Values, waitForResult \in BOOLEAN :
            Accept(id, value, waitForResult)
    \/ \E id \in Ids, error \in Errors : Reject(id, error)
    \/ \E error \in Errors : Clear(error)
    \/ \E id \in Ids, requestState \in {"s2"} :
            UpdateRequestState(id, requestState)
    \/ \E k \in DOMAIN acceptPromises, v \in AcceptValues : ResultSuccess(k, v)
    \/ \E k \in DOMAIN acceptPromises, e \in ResultErrors : ResultError(k, e)

SpecRequests == Init /\ [][NextRequests]_vars

\* The flow operations alone, with three flow ids and a deeper stack.  The
\* request operations neither read nor write approvalFlows.
StartNestedFlow(idArg, hookThrows) ==
    /\ Len(approvalFlows) < MaxNesting
    /\ \E id \in (IF idArg = Undefined THEN NestedFlowIds ELSE {idArg}) :
         Return(startFlow(Ctl, id, hookThrows))

NextFlows ==
    \/ \E id \in NestedFlowIds \cup {Undefined}, hookThrows \in BOOLEAN :
            StartNestedFlow(id, hookThrows)
    \/ \E id \in NestedFlowIds : EndFlow(id)

SpecFlows == Init /\ [][NextFlows]_vars

\* The seven operations that publish stateChange events: add, accept,
\* reject, clear, updateRequestState, startFlow and endFlow.  The
\* resultCallbacks settle an acceptor's promise and publish nothing, and
\* addAndShowApprovalRequest publishes through add.
NextEvents ==
    \/ \E opts \in AddOptionsArgs : Add(opts)
    \/ \E id \in Ids, value \in Values, waitForResult \in BOOLEAN :
            Accept(id, value, waitForResult)
    \/ \E id \in Ids, error \in Errors : Reject(id, error)
    \/ \E error \in Errors : Clear(error)
    \/ \E id \in Ids, requestState \in {"s2"} :
            UpdateRequestState(id, requestState)
    \/ \E id \in FlowIds \cup {Undefined}, hookThrows \in BOOLEAN :
            StartFlow(id, hookThrows)
    \/ \E id \in FlowIds : EndFlow(id)

SpecEvents == Init /\ [][NextEvents]_vars

\* The four operations that register and remove requests: add, accept,
\* reject and clear.
NextLifecycle ==
    \/ \E opts \in AddOptionsArgs : Add(opts)
    \/ \E id \in Ids, value \in Values, waitForResult \in BOOLEAN :
            Accept(id, value, waitForResult)
    \/ \E id \in Ids, error \in Errors : Reject(id, error)
    \/ \E error \in Errors : Clear(error)

SpecLifecycle == Init /\ [][NextLifecycle]_vars

\* add, accept, reject and clear together with the resultCallbacks the
\* creators hold.
NextResults ==
    \/ \E opts \in AddOptionsArgs : Add(opts)
    \/ \E id \in Ids, value \in Values, waitForResult \in BOOLEAN :
            Accept(id, value, waitForResult)
    \/ \E id \in Ids, error \in Errors : Reject(id, error)
    \/ \E error \in Errors : Clear(error)
    \/ \E k \in DOMAIN acceptPromises, v \in AcceptValues : ResultSuccess(k, v)
    \/ \E k \in DOMAIN acceptPromises, e \in ResultErrors : ResultError(k, e)

SpecResults == Init /\ [][NextResults]_vars

\* The operations that call the show hook, addAndShowApprovalRequest and
\* startFlow, with those that undo them, reject and endFlow.
NextShow ==
    \/ \E opts \in AddOptionsArgs, hookThrows \in BOOLEAN :
            AddAndShowApprovalRequest(opts, hookThrows)
    \/ \E id \in Ids, error \in Errors : Reject(id, error)
    \/ \E id \in FlowIds \cup {Undefined}, hookThrows \in BOOLEAN :
            StartFlow(id, hookThrows)
    \/ \E id \in FlowIds : EndFlow(id)

SpecShow == Init /\ [][NextShow]_vars

\* The `state` option of the constructor, a partial state: the empty
\* option, a state saved with one pending request, the same without its
\* count, and a count alone.
SavedRequest ==
    [id |-> "a", origin |-> "o1", type |-> "t1", requestData |-> Null,
     requestState |-> Null, expectsResult |-> FALSE]

StateOptions ==
    {EmptyMap,
     [pendingApprovals |-> MapSet(EmptyMap, "a", SavedRequest),
      pendingApprovalCount |-> 1],
     [pendingApprovals |-> MapSet(EmptyMap, "a", SavedRequest)],
     [pendingApprovalCount |-> 1]}

\* The constructor: the state is { ...getDefaultState(), ...state }, and the
\* registry and the index are new, empty maps.
constructor(state, excluded) ==
    [pendingApprovals |->
         IF "pendingApprovals" \in DOMAIN state
         THEN state.pendingApprovals ELSE getDefaultState.pendingApprovals,
     pendingApprovalCount |->
         IF "pendingApprovalCount" \in DOMAIN state
         THEN state.pendingApprovalCount ELSE getDefaultState.pendingApprovalCount,
     approvalFlows |-> getDefaultState.approvalFlows,
     _approvals |-> EmptyMap,
     _origins |-> EmptyMap,
     typesExcludedFromRateLimiting |-> excluded,
     creatorPromises |-> <<>>,
     acceptPromises |-> <<>>]

InitFromState ==
    \E state \in StateOptions, excluded \in ExclusionOptions :
        LET c == constructor(state, excluded)
        IN /\ pendingApprovals = c.pendingApprovals
           /\ pendingApprovalCount = c.pendingApprovalCount
           /\ approvalFlows = c.approvalFlows
           /\ _approvals = c._approvals
           /\ _origins = c._origins
           /\ typesExcludedFromRateLimiting = c.typesExcludedFromRateLimiting
           /\ creatorPromises = c.creatorPromises
           /\ acceptPromises = c.acceptPromises

\* The controller constructed with a state option, under add, accept,
\* reject and clear.
SpecFromState == InitFromState /\ [][NextLifecycle]_vars

\* ------------------------------------------------------------- properties
\* The stored requests of an origin and type, and the promises by role.
Matching(origin, type) ==
    {id \in DOMAIN pendingApprovals :
        /\ pendingApprovals[id].origin = origin
        /\ pendingApprovals[id].type = type}

Registered(p) == \E id \in DOMAIN _approvals : _approvals[id] = p
Removed(p) == p \in DOMAIN creatorPromises /\ ~Registered(p)

\* The controller's fields, without the bookkeeping of one call.
Fields(c) == [c EXCEPT !.updates = 0, !.shown = 0, !.thrown = NoError, !.observed = <<>>]

\* C1: in every reachable state pendingApprovalCount is the number of entries
\* of pendingApprovals, and getTotalApprovalCount() returns that number.
C1_CountIsStoreSize ==
    /\ pendingApprovalCount = Cardinality(DOMAIN pendingApprovals)
    /\ getTotalApprovalCount(Ctl) = Cardinality(DOMAIN pendingApprovals)

\* Two requests were added and one of them was removed again.
C1_Witness ==
    /\ pendingApprovalCount = 1
    /\ Len(creatorPromises) = 2
    /\ \E p \in DOMAIN creatorPromises : Removed(p)

\* C2: in every reachable state the ids of the callback registry are the ids
\* of pendingApprovals, and each id's callbacks settle one promise of their
\* own, created for that id and still pending.
C2_RegistryMatchesStore ==
    /\ DOMAIN _approvals = DOMAIN pendingApprovals
    /\ \A id \in DOMAIN _approvals :
         /\ _approvals[id] \in DOMAIN creatorPromises
         /\ creatorPromises[_approvals[id]].id = id
         /\ creatorPromises[_approvals[id]].state = "pending"
         /\ \A other \in DOMAIN _approvals :
              _approvals[other] = _approvals[id] => other = id

\* A request is pending after another one was removed and rejected.
C2_Witness ==
    /\ DOMAIN _approvals # {}
    /\ \E p \in DOMAIN creatorPromises :
         Removed(p) /\ creatorPromises[p].state = "rejected"

\* C3: in every reachable state getApprovalCount({origin, type}) is the number
\* of stored requests with that origin and type, a missing entry counting as 0.
C3_IndexMatchesStore ==
    \A origin \in Origins, type \in Types :
        /\ getApprovalCount(Ctl, origin, type).thrown = NoError
        /\ getApprovalCount(Ctl, origin, type).value =
               Cardinality(Matching(origin, type))

\* An origin had requests of two types and one of them was removed: the
\* index keeps the origin with a zero count next to a positive one.
C3_Witness ==
    \E origin \in DOMAIN _origins :
        \E t1 \in DOMAIN _origins[origin], t2 \in DOMAIN _origins[origin] :
            _origins[origin][t1] = 0 /\ _origins[origin][t2] > 0

\* C4: in every reachable state an origin has at most one pending request of
\* a type that is not in typesExcludedFromRateLimiting.
C4_OnePerOriginAndType ==
    \A origin \in Origins, type \in Types \ typesExcludedFromRateLimiting :
        Cardinality(Matching(origin, type)) <= 1

\* Two adds succeeded for one origin, one of a rate-limited type and one of
\* another type, and both requests are pending.
C4_Witness ==
    \E origin \in Origins, type \in Types \ typesExcludedFromRateLimiting :
        /\ Cardinality(Matching(origin, type)) = 1
        /\ \E other \in Types \ {type} : Cardinality(Matching(origin, other)) = 1

\* C5: the callbacks of one registration are called at most once, and only
\* by the call that removes the registration; accept and reject of an id
\* that is not registered throw the not-found error, settle nothing and
\* change nothing.
C5_RemovedOnce ==
    /\ \A p \in DOMAIN creatorPromises :
         /\ creatorPromises[p].calls <= 1
         /\ Registered(p) => creatorPromises[p].calls = 0
    /\ \A id \in Ids \ DOMAIN _approvals :
         /\ \A value \in Values, waitForResult \in BOOLEAN :
              LET c == accept(Ctl, id, value, waitForResult)
              IN /\ c.thrown = Error("ApprovalRequestNotFoundError", <<id>>)
                 /\ Fields(c) = Ctl
         /\ \A error \in Errors :
              LET c == reject(Ctl, id, error)
              IN /\ c.thrown = Error("ApprovalRequestNotFoundError", <<id>>)
                 /\ Fields(c) = Ctl

\* An id was removed and settled, and is not registered again: a further
\* accept or reject of it is the not-found case.
C5_Witness ==
    \E p \in DOMAIN creatorPromises :
        /\ creatorPromises[p].calls = 1
        /\ creatorPromises[p].id \notin DOMAIN _approvals
\* C6 (as claimed): every accept that removes a request settles the
\* creator's promise within the call, so a promise whose request has been
\* removed is never pending.
C6_RemovedImpliesSettled ==
    \A p \in DOMAIN creatorPromises :
        Removed(p) => creatorPromises[p].state # "pending"

\* The values accept may be called with: a value, or none.
AcceptValueArgs == Values \cup {Undefined}

\* C7: when accept settles the creator's promise, the result is an envelope
\* exactly when the request's stored expectsResult is true, it carries the
\* accepted value either way, and the stored flag is the one given to add,
\* an omitted flag counting as false.
C7_ResultByStoredFlag ==
    /\ \A id \in DOMAIN _approvals, value \in AcceptValueArgs,
          waitForResult \in BOOLEAN :
         LET c == accept(Ctl, id, value, waitForResult)
             settled == c.creatorPromises[_approvals[id]]
         IN settled.state # "pending" =>
              /\ settled.state = "fulfilled"
              /\ settled.envelope = pendingApprovals[id].expectsResult
              /\ settled.value = value
    /\ \A id \in Ids \ DOMAIN _approvals, origin \in Origins, type \in Types,
          payload \in Payloads :
         LET c == add(Ctl, origin, type, id, payload.requestData,
                      payload.requestState, payload.expectsResult)
         IN ~Threw(c) =>
              c.pendingApprovals[id].expectsResult =
                  (payload.expectsResult = "true")

\* One creator has received the raw value and another one an envelope.
C7_Witness ==
    \E p \in DOMAIN creatorPromises, q \in DOMAIN creatorPromises :
        /\ creatorPromises[p].state = "fulfilled"
        /\ ~creatorPromises[p].envelope
        /\ creatorPromises[p].value \in Values
        /\ creatorPromises[q].state = "fulfilled"
        /\ creatorPromises[q].envelope

\* C8: the envelope accept delivers for an expectsResult request carries
\* result callbacks (those of the promise accept returns) exactly when accept
\* was called with waitForResult.
C8_CallbacksIffWaitForResult ==
    \A id \in DOMAIN _approvals, value \in AcceptValueArgs,
       waitForResult \in BOOLEAN :
        pendingApprovals[id].expectsResult =>
            LET c == accept(Ctl, id, value, waitForResult)
                settled == c.creatorPromises[_approvals[id]]
            IN /\ settled.state = "fulfilled"
               /\ settled.envelope
               /\ settled.resultCallbacks =
                      IF waitForResult THEN Len(c.acceptPromises) ELSE 0

\* One envelope was delivered without result callbacks and one with them.
C8_Witness ==
    \E p \in DOMAIN creatorPromises, q \in DOMAIN creatorPromises :
        /\ creatorPromises[p].state = "fulfilled"
        /\ creatorPromises[p].envelope
        /\ creatorPromises[p].resultCallbacks = 0
        /\ creatorPromises[q].state = "fulfilled"
        /\ creatorPromises[q].envelope
        /\ creatorPromises[q].resultCallbacks # 0

\* C9: accept of a pending id without waitForResult returns a new promise
\* that is already resolved with {value: undefined}, whatever the request's
\* expectsResult and the accepted value.
C9_ResolvesAtOnce ==
    \A id \in DOMAIN _approvals, value \in AcceptValueArgs :
        LET c == accept(Ctl, id, value, FALSE)
            k == Len(c.acceptPromises)
        IN /\ ~Threw(c)
           /\ k = Len(acceptPromises) + 1
           /\ c.acceptPromises[k].state = "fulfilled"
           /\ c.acceptPromises[k].value = Undefined

\* Requests of both kinds were accepted without waitForResult: each
\* acceptor's promise is resolved with undefined.
C9_Witness ==
    \E p \in DOMAIN creatorPromises, q \in DOMAIN creatorPromises :
        /\ creatorPromises[p].state = "fulfilled"
        /\ creatorPromises[p].envelope
        /\ creatorPromises[p].resultCallbacks = 0
        /\ creatorPromises[q].state = "fulfilled"
        /\ ~creatorPromises[q].envelope
        /\ \A k \in DOMAIN acceptPromises :
             /\ acceptPromises[k].state = "fulfilled"
             /\ acceptPromises[k].value = Undefined
        /\ Len(acceptPromises) = 2

\* C10: accept with waitForResult of an expectsResult request returns a
\* pending promise and hands its result callbacks to the creator; a pending
\* acceptor's promise changes only in a step that is a call of its own
\* success or error callback; success(v) resolves it with {value: v} and
\* error(e) rejects it with e.
C10_WaitsForResultCallbacks ==
    [][/\ \A id \in DOMAIN _approvals, value \in AcceptValueArgs :
            pendingApprovals[id].expectsResult =>
                LET c == accept(Ctl, id, value, TRUE)
                    k == Len(c.acceptPromises)
                IN /\ ~Threw(c)
                   /\ k = Len(acceptPromises) + 1
                   /\ c.acceptPromises[k].state = "pending"
                   /\ c.creatorPromises[_approvals[id]].resultCallbacks = k
       /\ \A k \in DOMAIN acceptPromises :
            acceptPromises[k].state = "pending" =>
                /\ acceptPromises'[k] # acceptPromises[k] =>
                     \/ \E v \in AcceptValues : ResultSuccess(k, v)
                     \/ \E e \in ResultErrors : ResultError(k, e)
                /\ \A v \in AcceptValues :
                     ResultSuccess(k, v) =>
                        /\ acceptPromises'[k].state = "fulfilled"
                        /\ acceptPromises'[k].value = v
                /\ \A e \in ResultErrors :
                     ResultError(k, e) =>
                        /\ acceptPromises'[k].state = "rejected"
                        /\ acceptPromises'[k].value = e
      ]_vars

\* One acceptor's promise was resolved by success and another one rejected
\* by error.
C10_Witness ==
    \E k \in DOMAIN acceptPromises, j \in DOMAIN acceptPromises :
        /\ acceptPromises[k].state = "fulfilled"
        /\ acceptPromises[k].value \in AcceptValues
        /\ acceptPromises[j].state = "rejected"
        /\ acceptPromises[j].value \in ResultErrors

\* The values resultCallbacks.success may be called with: a value, or none.
SuccessArgs == AcceptValues \cup {Undefined}

\* C11: of the calls of one envelope's success and error callbacks only the
\* first one takes effect on the promise accept returned: the first call
\* settles it, a second call of either callback after it leaves the outcome
\* as the first call made it, and no step changes a settled acceptor's promise.
C11_FirstResultCallWins ==
    [][\A k \in DeliveredResultCallbacks :
        /\ acceptPromises[k].state # "pending" =>
             /\ acceptPromises'[k] = acceptPromises[k]
             /\ \A v \in SuccessArgs :
                  ResultCallbackSuccess(Ctl, k, v).acceptPromises[k] =
                      acceptPromises[k]
             /\ \A e \in ResultErrors :
                  ResultCallbackError(Ctl, k, e).acceptPromises[k] =
                      acceptPromises[k]
        /\ acceptPromises[k].state = "pending" =>
             \A v \in SuccessArgs, e \in ResultErrors :
                LET succeeded == ResultCallbackSuccess(Ctl, k, v)
                    failed == ResultCallbackError(Ctl, k, e)
                IN /\ succeeded.acceptPromises[k].state = "fulfilled"
                   /\ succeeded.acceptPromises[k].value = v
                   /\ failed.acceptPromises[k].state = "rejected"
                   /\ failed.acceptPromises[k].value = e
                   /\ ResultCallbackError(succeeded, k, e).acceptPromises[k] =
                          succeeded.acceptPromises[k]
                   /\ ResultCallbackSuccess(succeeded, k, v).acceptPromises[k] =
                          succeeded.acceptPromises[k]
                   /\ ResultCallbackSuccess(failed, k, v).acceptPromises[k] =
                          failed.acceptPromises[k]
                   /\ ResultCallbackError(failed, k, e).acceptPromises[k] =
                          failed.acceptPromises[k]
      ]_vars

\* An envelope's error callback has rejected the acceptor's promise, and the
\* creator still holds the envelope's success callback.
C11_Witness ==
    \E k \in DeliveredResultCallbacks :
        /\ acceptPromises[k].state = "rejected"
        /\ acceptPromises[k].value \in ResultErrors

\* The error accept rejects its promise with when the request has no result
\* support.
NoResultSupport == "ApprovalRequestNoResultSupportError"

\* C12: accept with waitForResult of a pending request whose expectsResult is
\* false returns a promise rejected with the no-result-support error, and
\* the request is removed all the same: from the store, the registry and the
\* index, the count is one lower and has({id}) is false.
C12_NoResultSupportStillRemoves ==
    \A id \in DOMAIN _approvals, value \in AcceptValueArgs :
        ~pendingApprovals[id].expectsResult =>
            LET c == accept(Ctl, id, value, TRUE)
                k == Len(c.acceptPromises)
                origin == pendingApprovals[id].origin
                type == pendingApprovals[id].type
            IN /\ ~Threw(c)
               /\ k = Len(acceptPromises) + 1
               /\ c.acceptPromises[k].state = "rejected"
               /\ c.acceptPromises[k].value = NoResultSupport
               /\ id \notin DOMAIN c.pendingApprovals
               /\ id \notin DOMAIN c._approvals
               /\ c.pendingApprovalCount = pendingApprovalCount - 1
               /\ getTotalApprovalCount(c) = getTotalApprovalCount(Ctl) - 1
               /\ getApprovalCount(c, origin, type).value =
                      getApprovalCount(Ctl, origin, type).value - 1
               /\ has(c, id, Undefined, Undefined) = Returns(FALSE)

\* An acceptor's promise was rejected with the no-result-support error; the
\* request it was called for is gone while another request is pending.
C12_Witness ==
    \E k \in DOMAIN acceptPromises :
        /\ acceptPromises[k].state = "rejected"
        /\ acceptPromises[k].value = NoResultSupport
        /\ acceptPromises[k].id \notin DOMAIN pendingApprovals
        /\ pendingApprovalCount = 1

\* The not-found error of an id.
NotFound(id) == Error("ApprovalRequestNotFoundError", <<id>>)

\* C13: accept, reject and updateRequestState of an id that is not pending
\* throw the not-found error from the call itself, create and settle no
\* promise, and leave the store, the index, the registry, the count and the
\* flow stack as they were.
C13_NotFoundChangesNothing ==
    \A id \in (Ids \cup {"zz"}) \ DOMAIN pendingApprovals :
        /\ \A value \in AcceptValueArgs, waitForResult \in BOOLEAN :
             LET c == accept(Ctl, id, value, waitForResult)
             IN c.thrown = NotFound(id) /\ Fields(c) = Ctl /\ c.updates = 0
        /\ \A error \in Errors :
             LET c == reject(Ctl, id, error)
             IN c.thrown = NotFound(id) /\ Fields(c) = Ctl /\ c.updates = 0
        /\ \A requestState \in {"s2", Undefined} :
             LET c == updateRequestState(Ctl, id, requestState)
             IN c.thrown = NotFound(id) /\ Fields(c) = Ctl /\ c.updates = 0

\* An id is not pending while another request is, a flow is open and a
\* promise is still unsettled: the state the failing call must leave alone.
C13_Witness ==
    /\ Ids \ DOMAIN pendingApprovals # {}
    /\ pendingApprovalCount = 1
    /\ Len(approvalFlows) = 1
    /\ \E p \in DOMAIN creatorPromises : Removed(p)

\* The errors reject and clear may be called with.
RejectArgs == Errors \cup {"e3"}

\* 1 for the origin and type of a request, 0 for every other pair.
IsPair(request, origin, type) ==
    IF request.origin = origin /\ request.type = type THEN 1 ELSE 0

\* C14: reject(id, error) of a pending id removes that request and no other
\* from the store, the registry and the index, lowers the count by one and
\* rejects that request's creator promise with error; every other promise,
\* every acceptor's promise and the flow stack stay as they were.
C14_RejectRemovesOne ==
    \A id \in DOMAIN _approvals, error \in RejectArgs :
        LET c == reject(Ctl, id, error)
            p == _approvals[id]
        IN /\ ~Threw(c)
           /\ c.pendingApprovals = MapDelete(pendingApprovals, id)
           /\ c._approvals = MapDelete(_approvals, id)
           /\ \A origin \in Origins, type \in Types :
                getApprovalCount(c, origin, type).value =
                    getApprovalCount(Ctl, origin, type).value -
                        IsPair(pendingApprovals[id], origin, type)
           /\ c.pendingApprovalCount = pendingApprovalCount - 1
           /\ c.creatorPromises[p].state = "rejected"
           /\ c.creatorPromises[p].value = error
           /\ \A q \in DOMAIN creatorPromises \ {p} :
                c.creatorPromises[q] = creatorPromises[q]
           /\ Len(c.creatorPromises) = Len(creatorPromises)
           /\ c.acceptPromises = acceptPromises
           /\ c.approvalFlows = approvalFlows

\* A request was rejected while a request of the same origin stays pending:
\* the index keeps the origin.
C14_Witness ==
    \E p \in DOMAIN creatorPromises :
        /\ Removed(p)
        /\ creatorPromises[p].state = "rejected"
        /\ creatorPromises[p].value \in Errors
        /\ acceptPromises = <<>>
        /\ \E origin \in DOMAIN _origins :
             SumValues(_origins[origin]) = 1 /\ Cardinality(DOMAIN _origins[origin]) = 2

\* C15: clear(err) rejects with err the creator promise of every request
\* that is pending, whatever the requests' number, origins and types, those
\* of an excluded type with several requests of one origin included, and
\* leaves pendingApprovals, the index and the registry empty and the total
\* count 0; promises whose request was removed before stay as they were.
C15_ClearRejectsAll ==
    \A err \in RejectArgs :
        LET c == clear(Ctl, err)
        IN /\ ~Threw(c)
           /\ \A p \in DOMAIN creatorPromises :
                IF Registered(p)
                THEN /\ c.creatorPromises[p].state = "rejected"
                     /\ c.creatorPromises[p].value = err
                     /\ c.creatorPromises[p].calls = 1
                ELSE c.creatorPromises[p] = creatorPromises[p]
           /\ Len(c.creatorPromises) = Len(creatorPromises)
           /\ c.pendingApprovals = EmptyMap
           /\ c._origins = EmptyMap
           /\ c._approvals = EmptyMap
           /\ c.pendingApprovalCount = 0
           /\ getTotalApprovalCount(c) = 0
           /\ c.acceptPromises = acceptPromises
           /\ c.approvalFlows = approvalFlows

\* Two requests were made and nothing is pending: both creator promises are
\* rejected with the error given, none was accepted.
C15_Witness ==
    /\ Len(creatorPromises) = 2
    /\ \A p \in DOMAIN creatorPromises :
         creatorPromises[p].state = "rejected" /\ creatorPromises[p].value \in Errors
    /\ creatorPromises[1].id # creatorPromises[2].id
    /\ pendingApprovals = EmptyMap /\ _origins = EmptyMap /\ _approvals = EmptyMap
    /\ pendingApprovalCount = 0

\* The already-pending error of an origin and type.
AlreadyPending(origin, type) == Error("rpc.resourceUnavailable", <<origin, type>>)

\* C16: add of a type that is not excluded from rate limiting, with
\* parameters that pass the validation, while a request of the same origin
\* and type is pending throws the already-pending error, creates no promise
\* and leaves the store, the index, the registry and the count as they were;
\* so does addAndShowApprovalRequest, which shows nothing.
C16_AlreadyPendingChangesNothing ==
    \A origin \in Origins, type \in Types \ typesExcludedFromRateLimiting :
        Matching(origin, type) # {} =>
            \A id \in Ids \ DOMAIN _approvals, payload \in Payloads :
                LET c == add(Ctl, origin, type, id, payload.requestData,
                             payload.requestState, payload.expectsResult)
                    s == addAndShowApprovalRequest(Ctl, origin, type, id,
                             payload.requestData, payload.requestState,
                             payload.expectsResult, FALSE)
                IN /\ c.thrown = AlreadyPending(origin, type)
                   /\ Fields(c) = Ctl
                   /\ c.updates = 0
                   /\ s = c

\* One request of a rate-limited type is pending and an id is free: the add
\* of a second request of its origin and type is refused.
C16_Witness ==
    /\ Len(creatorPromises) = 1
    /\ \E origin \in Origins, type \in Types \ typesExcludedFromRateLimiting :
         Cardinality(Matching(origin, type)) = 1
    /\ Ids \ DOMAIN _approvals # {}

\* Parameters of add, well-formed and malformed: an id (empty, free or
\* registered), an origin and a type (empty or not), and requestData and
\* requestState that are omitted or an array.
IdArgs == Ids \cup {""}
OriginArgs == Origins \cup {""}
TypeArgs == Types \cup {""}
DataArgs == {<<Undefined, Undefined>>, <<Arr, Undefined>>, <<Undefined, Arr>>}

\* The type of error _validateAddParams throws.
IsValidationError(e) == e.name = "rpc.internal"

\* C17: add with an empty id, an id that is registered, an empty origin, an
\* empty type, or requestData or requestState that is an array throws a
\* validation error and leaves the store, the index, the registry, the count
\* and the promises as they were; the validation comes before the duplicate
\* check, so a registered id whose origin and type are pending as well gets
\* the validation error, not the already-pending error.
C17_ValidationFirst ==
    /\ \A id \in IdArgs, origin \in OriginArgs, type \in TypeArgs, data \in DataArgs :
         (\/ id = "" \/ id \in DOMAIN _approvals \/ origin = "" \/ type = ""
          \/ data[1] = Arr \/ data[2] = Arr) =>
            LET c == add(Ctl, origin, type, id, data[1], data[2], Undefined)
            IN /\ IsValidationError(c.thrown)
               /\ Fields(c) = Ctl
               /\ c.updates = 0
    /\ \A id \in DOMAIN _approvals :
         LET origin == pendingApprovals[id].origin
             type == pendingApprovals[id].type
             c == add(Ctl, origin, type, id, Undefined, Undefined, Undefined)
         IN /\ c.thrown # AlreadyPending(origin, type)
            /\ c.thrown = Error("rpc.internal", <<"Approval request already exists.">>)

\* Two requests of a rate-limited type are pending: an add that repeats the
\* id, origin and type of either fails both the validation and the
\* duplicate check.
C17_Witness ==
    /\ pendingApprovalCount = 2
    /\ \A id \in DOMAIN pendingApprovals :
         pendingApprovals[id].type \notin typesExcludedFromRateLimiting

\* C18: for a type excluded from rate limiting, add with a free id succeeds
\* whenever requests of its origin and type are pending, and again after
\* that: each add registers a pending promise of its own and raises the
\* count of the origin and type by one without touching the requests that
\* are there, and rejecting the new request or accepting an old one leaves
\* the other pending.
C18_ExcludedTypesNotLimited ==
    \A origin \in Origins, type \in typesExcludedFromRateLimiting :
        Matching(origin, type) # {} =>
            \A id \in Ids \ DOMAIN _approvals, payload \in Payloads :
                LET count == getApprovalCount(Ctl, origin, type).value
                    c == add(Ctl, origin, type, id, payload.requestData,
                             payload.requestState, payload.expectsResult)
                    p == Len(creatorPromises) + 1
                    again == add(c, origin, type, "zz", payload.requestData,
                                 payload.requestState, payload.expectsResult)
                IN /\ ~Threw(c)
                   /\ c._approvals[id] = p
                   /\ c.creatorPromises[p].state = "pending"
                   /\ getApprovalCount(c, origin, type).value = count + 1
                   /\ Cardinality(DOMAIN c.pendingApprovals) = pendingApprovalCount + 1
                   /\ \A old \in DOMAIN pendingApprovals :
                        /\ c.pendingApprovals[old] = pendingApprovals[old]
                        /\ c._approvals[old] = _approvals[old]
                        /\ c.creatorPromises[_approvals[old]].state = "pending"
                   /\ ~Threw(again)
                   /\ getApprovalCount(again, origin, type).value = count + 2
                   /\ \A old \in Matching(origin, type) :
                        LET rejected == reject(c, id, "e1")
                            accepted == accept(c, old, "v1", FALSE)
                        IN /\ ~Threw(rejected)
                           /\ rejected.creatorPromises[p].state = "rejected"
                           /\ rejected.creatorPromises[_approvals[old]].state = "pending"
                           /\ rejected.pendingApprovals = pendingApprovals
                           /\ getApprovalCount(rejected, origin, type).value = count
                           /\ ~Threw(accepted)
                           /\ accepted.creatorPromises[_approvals[old]].state = "fulfilled"
                           /\ accepted.creatorPromises[p].state = "pending"
                           /\ id \in DOMAIN accepted.pendingApprovals
                           /\ getApprovalCount(accepted, origin, type).value = count

\* Two requests of one origin and one excluded type are pending together.
C18_Witness ==
    \E origin \in Origins, type \in typesExcludedFromRateLimiting :
        Cardinality(Matching(origin, type)) = 2

\* requestData || null, requestState || null.
OrNull(x) == IF x = Undefined THEN Null ELSE x

\* C19: an add that succeeds registers callbacks under its id, raises the
\* index count of its origin and type by one and no other, stores a request
\* with the id, origin, type, requestData, requestState and expectsResult
\* given, raises pendingApprovalCount by one, changes no other request and
\* returns a promise that is pending; add succeeds when the id is free, the
\* parameters are well-formed and the type is excluded or not pending for
\* the origin.
C19_AddEffects ==
    \A id \in Ids \ DOMAIN _approvals, origin \in Origins, type \in Types,
       payload \in Payloads :
        LET c == add(Ctl, origin, type, id, payload.requestData,
                     payload.requestState, payload.expectsResult)
            p == Len(creatorPromises) + 1
        IN /\ (type \in typesExcludedFromRateLimiting \/ Matching(origin, type) = {})
                => ~Threw(c)
           /\ ~Threw(c) =>
                /\ DOMAIN c._approvals = DOMAIN _approvals \cup {id}
                /\ c._approvals[id] = p
                /\ \A old \in DOMAIN _approvals : c._approvals[old] = _approvals[old]
                /\ Len(c.creatorPromises) = p
                /\ c.creatorPromises[p].state = "pending"
                /\ c.creatorPromises[p].calls = 0
                /\ \A q \in DOMAIN creatorPromises :
                     c.creatorPromises[q] = creatorPromises[q]
                /\ \A o \in Origins, t \in Types :
                     getApprovalCount(c, o, t).value =
                         getApprovalCount(Ctl, o, t).value +
                             (IF o = origin /\ t = type THEN 1 ELSE 0)
                /\ DOMAIN c.pendingApprovals = DOMAIN pendingApprovals \cup {id}
                /\ c.pendingApprovals[id] =
                       [id |-> id, origin |-> origin, type |-> type,
                        requestData |-> OrNull(payload.requestData),
                        requestState |-> OrNull(payload.requestState),
                        expectsResult |-> (payload.expectsResult = "true")]
                /\ \A old \in DOMAIN pendingApprovals :
                     c.pendingApprovals[old] = pendingApprovals[old]
                /\ c.pendingApprovalCount = pendingApprovalCount + 1
                /\ c.acceptPromises = acceptPromises
                /\ c.approvalFlows = approvalFlows

\* A request added with data, state and the expectsResult flag is stored
\* next to one added without them.
C19_Witness ==
    \E id \in DOMAIN pendingApprovals, other \in DOMAIN pendingApprovals :
        /\ pendingApprovals[id].requestData = "d1"
        /\ pendingApprovals[id].requestState = "s1"
        /\ pendingApprovals[id].expectsResult
        /\ pendingApprovals[other].requestData = Null
        /\ ~pendingApprovals[other].expectsResult
        /\ _approvals[id] < _approvals[other]

\* C20: a creator's promise is settled at most once, and only in a step
\* that is an accept, a reject or a clear which removes the request the
\* promise was created for; while its request is in pendingApprovals it is
\* pending, and no step that is an operation on another id, an
\* updateRequestState or a flow operation changes it.
C20_SettledOnlyByRemoval ==
    [][/\ \A p \in DOMAIN creatorPromises :
            /\ p \in DOMAIN creatorPromises'
            /\ creatorPromises[p].calls <= 1
            /\ Registered(p) =>
                 /\ creatorPromises[p].id \in DOMAIN pendingApprovals
                 /\ creatorPromises[p].state = "pending"
            /\ creatorPromises'[p] # creatorPromises[p] =>
                 LET id == creatorPromises[p].id
                 IN /\ creatorPromises[p].state = "pending"
                    /\ creatorPromises'[p].state # "pending"
                    /\ creatorPromises'[p].calls = 1
                    /\ id \in DOMAIN pendingApprovals
                    /\ _approvals[id] = p
                    /\ id \notin DOMAIN pendingApprovals'
                    /\ \/ \E value \in Values, waitForResult \in BOOLEAN :
                            Accept(id, value, waitForResult)
                       \/ \E error \in Errors : Reject(id, error)
                       \/ \E error \in Errors : Clear(error)
      ]_vars

\* An id was used twice: the promise of its first request is fulfilled and
\* the promise of its second request is pending.
C20_Witness ==
    /\ Len(creatorPromises) = 2
    /\ creatorPromises[1].id = creatorPromises[2].id
    /\ creatorPromises[1].state = "fulfilled"
    /\ creatorPromises[2].state = "pending"
    /\ Registered(2)

\* The errors of endFlow.
NoApprovalFlows == Error("NoApprovalFlowsError", <<>>)
EndInvalidFlow(id, flows) == Error("EndInvalidFlowError", <<id>> \o flows)

\* The stack without its top frame.
Front(flows) == SubSeq(flows, 1, Len(flows) - 1)

\* C21: endFlow({id}) throws the no-flows error when the stack is empty and
\* the invalid-end error, with the id and the ids of the stack in order, when
\* id is not the id on top; neither changes the stack.  Otherwise it removes
\* the top frame and leaves the frames below: of two open flows the first
\* cannot be ended before the second, and can be right after it.
C21_EndFlowPopsTop ==
    \A id \in NestedFlowIds \cup {"zz"} :
        LET c == endFlow(Ctl, id)
            n == Len(approvalFlows)
        IN /\ n = 0 => c.thrown = NoApprovalFlows /\ Fields(c) = Ctl /\ c.updates = 0
           /\ (n > 0 /\ id # approvalFlows[n]) =>
                /\ c.thrown = EndInvalidFlow(id, approvalFlows)
                /\ Fields(c) = Ctl
                /\ c.updates = 0
           /\ (n > 0 /\ id = approvalFlows[n]) =>
                /\ ~Threw(c)
                /\ Len(c.approvalFlows) = n - 1
                /\ \A i \in 1..(n - 1) : c.approvalFlows[i] = approvalFlows[i]
                /\ [c EXCEPT !.approvalFlows = approvalFlows, !.updates = 0] = Ctl
           /\ (n > 1 /\ id = approvalFlows[n - 1] /\ id # approvalFlows[n]) =>
                LET ended == endFlow(Ctl, approvalFlows[n])
                    both == endFlow(ended, id)
                IN /\ c.thrown = EndInvalidFlow(id, approvalFlows)
                   /\ ~Threw(ended)
                   /\ ~Threw(both)
                   /\ both.approvalFlows = SubSeq(approvalFlows, 1, n - 2)

\* Flow f1 was started and then flow f2: endFlow of f1 is refused.
C21_Witness == approvalFlows = <<"f1", "f2">>

\* C22: in every step approvalFlows stays as it is, or gets one frame on top
\* in a startFlow, or loses its top frame in an endFlow of the id on top; the
\* frames below the top are never removed or reordered.
C22_FlowsChangeAtTopOnly ==
    [][approvalFlows' # approvalFlows =>
        \/ /\ Len(approvalFlows') = Len(approvalFlows) + 1
           /\ Front(approvalFlows') = approvalFlows
           /\ \E hookThrows \in BOOLEAN :
                \/ StartNestedFlow(approvalFlows'[Len(approvalFlows')], hookThrows)
                \/ StartFlow(approvalFlows'[Len(approvalFlows')], hookThrows)
        \/ /\ Len(approvalFlows) > 0
           /\ approvalFlows' = Front(approvalFlows)
           /\ EndFlow(approvalFlows[Len(approvalFlows)])
      ]_vars

\* Three flows are open, the first and the third under one id.
C22_Witness ==
    /\ Len(approvalFlows) = 3
    /\ approvalFlows[1] = approvalFlows[3]
    /\ approvalFlows[1] # approvalFlows[2]

\* C23: updateRequestState({id, requestState}) of a pending id replaces the
\* requestState of that request and nothing else: the request's other
\* fields, the other requests, the index, the registry, the count, the flow
\* stack and every promise are as before.
C23_UpdateRequestStateFrame ==
    \A id \in DOMAIN pendingApprovals, requestState \in {"s2", "s3"} :
        LET c == updateRequestState(Ctl, id, requestState)
        IN /\ ~Threw(c)
           /\ c.pendingApprovals[id] =
                  [pendingApprovals[id] EXCEPT !.requestState = requestState]
           /\ DOMAIN c.pendingApprovals = DOMAIN pendingApprovals
           /\ \A other \in DOMAIN pendingApprovals \ {id} :
                c.pendingApprovals[other] = pendingApprovals[other]
           /\ [c EXCEPT !.pendingApprovals = pendingApprovals, !.updates = 0] = Ctl

\* The state of one of two pending requests was replaced while a flow is open.
C23_Witness ==
    /\ pendingApprovalCount = 2
    /\ Len(approvalFlows) = 1
    /\ \E id \in DOMAIN pendingApprovals, other \in DOMAIN pendingApprovals :
         /\ pendingApprovals[id].requestState = "s2"
         /\ pendingApprovals[id].requestData = "d1"
         /\ pendingApprovals[other].requestState # "s2"

\* The error has throws for a filter without id, origin and type.
HasFilterError == Error("Error", <<"Must specify a valid combination of id, origin, and type.">>)

\* C24 (as claimed): has throws unless exactly one kind of filter is given:
\* for the empty filter, and for an id given together with an origin or a type.
C24_HasNeedsOneFilterKind ==
    /\ has(Ctl, Undefined, Undefined, Undefined).thrown # NoError
    /\ \A id \in Ids, origin \in Origins, type \in Types :
         /\ has(Ctl, id, origin, Undefined).thrown # NoError
         /\ has(Ctl, id, Undefined, type).thrown # NoError
         /\ has(Ctl, id, origin, type).thrown # NoError

\* C24 (amended): has throws for the empty filter and for no other; when an
\* id is given, an origin and a type given with it are ignored and the
\* answer is that of has({id}).
C24_HasIdTakesPrecedence ==
    /\ has(Ctl, Undefined, Undefined, Undefined).thrown = HasFilterError
    /\ has(Ctl, "", "", "").thrown = HasFilterError
    /\ \A id \in Ids \cup {"zz"}, origin \in Origins \cup {Undefined},
          type \in Types \cup {Undefined} :
         /\ has(Ctl, id, origin, type) = Returns(id \in DOMAIN _approvals)
         /\ has(Ctl, id, origin, type) = has(Ctl, id, Undefined, Undefined)
    /\ \A origin \in Origins \cup {Undefined}, type \in Types \cup {Undefined} :
         (origin # Undefined \/ type # Undefined) =>
            has(Ctl, Undefined, origin, type).thrown = NoError

\* An id is pending and an origin has no request: has of the two together
\* is true, where has of the origin alone is false.
C24_Witness ==
    \E id \in DOMAIN _approvals, origin \in Origins :
        /\ origin \notin DOMAIN _origins
        /\ has(Ctl, id, origin, Undefined).value
        /\ ~has(Ctl, Undefined, origin, Undefined).value

\* The pending requests of an origin, and of a type.
OfOrigin(origin) == {id \in DOMAIN pendingApprovals : pendingApprovals[id].origin = origin}
OfType(type) == {id \in DOMAIN pendingApprovals : pendingApprovals[id].type = type}

\* C25: in every reachable state has({id}) is true exactly when get(id)
\* returns a request, has({origin, type}) exactly when a pending request has
\* that origin and type, has({origin}) exactly when a pending request has
\* that origin, and has({type}) exactly when a pending request has that type.
C25_HasAgreesWithStore ==
    /\ \A id \in Ids \cup {"zz"} :
         has(Ctl, id, Undefined, Undefined) = Returns(get(Ctl, id) # UndefinedRequest)
    /\ \A origin \in Origins :
         /\ has(Ctl, Undefined, origin, Undefined) = Returns(OfOrigin(origin) # {})
         /\ \A type \in Types :
              has(Ctl, Undefined, origin, type) = Returns(Matching(origin, type) # {})
    /\ \A type \in Types :
         has(Ctl, Undefined, Undefined, type) = Returns(OfType(type) # {})

\* A request of one type was removed while its origin has a request of
\* another type: the origin's map keeps the removed type with the count 0.
C25_Witness ==
    /\ \E origin \in Origins, type \in Types :
         /\ origin \in DOMAIN _origins
         /\ type \in DOMAIN _origins[origin]
         /\ ~has(Ctl, Undefined, origin, type).value
         /\ has(Ctl, Undefined, origin, Undefined).value
    /\ \E p \in DOMAIN creatorPromises : Removed(p)

\* C26: getApprovalCount throws when neither origin nor type is given; for
\* an origin alone it returns the number of pending requests of the origin,
\* whatever their types, and for a type alone the number of pending requests
\* of the type, whatever their origins.
C26_CountsByOriginOrType ==
    /\ getApprovalCount(Ctl, Undefined, Undefined).thrown =
           Error("Error", <<"Must specify origin, type, or both.">>)
    /\ getApprovalCount(Ctl, "", "").thrown # NoError
    /\ \A origin \in Origins :
         getApprovalCount(Ctl, origin, Undefined) = Returns(Cardinality(OfOrigin(origin)))
    /\ \A type \in Types :
         getApprovalCount(Ctl, Undefined, type) = Returns(Cardinality(OfType(type)))

\* One origin has two pending requests of one type, so its map holds one
\* type with the count 2.
C26_Witness ==
    \E origin \in DOMAIN _origins :
        /\ Cardinality(OfOrigin(origin)) = 2
        /\ Cardinality({type \in DOMAIN _origins[origin] : _origins[origin][type] > 0}) = 1

\* The error of a show hook that throws.
HookError == Error("HookError", <<>>)

\* C27: addAndShowApprovalRequest calls the show hook once when its add
\* succeeds, with the request already in the registry, the index and the
\* store (a hook that throws leaves the request pending), and not at all
\* when the add fails the validation or the duplicate check; add never calls
\* it; startFlow calls it once, with the frame already pushed.
C27_ShowHookAfterRegistration ==
    /\ \A opts \in InvalidAddOptions, hookThrows \in BOOLEAN :
         LET s == addAndShowApprovalRequest(Ctl, opts.origin, opts.type, opts.id,
                      opts.requestData, opts.requestState, opts.expectsResult,
                      hookThrows)
         IN Threw(s) /\ s.shown = 0
    /\ \A id \in Ids, origin \in Origins, type \in Types, hookThrows \in BOOLEAN :
         LET a == add(Ctl, origin, type, id, "d1", Undefined, "true")
             s == addAndShowApprovalRequest(Ctl, origin, type, id, "d1",
                      Undefined, "true", hookThrows)
         IN /\ a.shown = 0
            /\ Threw(a) => s = a
            /\ ~Threw(a) =>
                 /\ s.shown = 1
                 /\ s.thrown = IF hookThrows THEN HookError ELSE NoError
                 /\ Fields(s) = Fields(a)
                 /\ id \in DOMAIN s._approvals
                 /\ id \in DOMAIN s.pendingApprovals
                 /\ OriginTypeCount(s, origin, type) =
                        OriginTypeCount(Ctl, origin, type) + 1
    /\ \A id \in FlowIds, hookThrows \in BOOLEAN :
         LET f == startFlow(Ctl, id, hookThrows)
         IN /\ f.shown = 1
            /\ f.thrown = IF hookThrows THEN HookError ELSE NoError
            /\ f.approvalFlows = Append(approvalFlows, id)

\* A request is pending and an id is free: an addAndShowApprovalRequest of
\* the request's origin and type is refused without the hook, one of the
\* other origin is shown.
C27_Witness ==
    \E id \in Ids \ DOMAIN _approvals, origin \in Origins, other \in Origins :
        /\ addAndShowApprovalRequest(Ctl, origin, "t1", id, "d1", Undefined,
               "true", FALSE).thrown = AlreadyPending(origin, "t1")
        /\ addAndShowApprovalRequest(Ctl, origin, "t1", id, "d1", Undefined,
               "true", FALSE).shown = 0
        /\ addAndShowApprovalRequest(Ctl, other, "t1", id, "d1", Undefined,
               "true", FALSE).shown = 1

\* The controller with a stateChange subscriber, and the subscriber that
\* only looks at the controller at every event of a call.
Subscribed(c, script) == [c EXCEPT !.subscriber = script]
MaxEvents == MaxAdds + 1
Watching == [i \in 1..MaxEvents |-> Observe]
Watched == Subscribed(Ctl, Watching)

\* The registry, the index and the store a subscriber finds agree.
Consistent(s) ==
    /\ DOMAIN s._approvals = DOMAIN s.pendingApprovals
    /\ s.pendingApprovalCount = Cardinality(DOMAIN s.pendingApprovals)
    /\ \A origin \in Origins, type \in Types :
         OriginTypeCount(s, origin, type) =
             Cardinality({id \in DOMAIN s.pendingApprovals :
                            /\ s.pendingApprovals[id].origin = origin
                            /\ s.pendingApprovals[id].type = type})
    /\ \A origin \in DOMAIN s._origins : origin \in Origins

\* Every event of a call was observed, and each found the three consistent.
ObservedConsistent(c) ==
    /\ Len(c.observed) = c.updates
    /\ ~Threw(c) => c.updates >= 1
    /\ \A i \in DOMAIN c.observed : Consistent(c.observed[i])

\* C28: at every stateChange event published inside add, accept, reject,
\* clear, updateRequestState, startFlow and endFlow, a subscriber that calls
\* back into the controller finds the registry and the store with the same
\* ids, the index counts equal to the store's contents and
\* pendingApprovalCount equal to the store's size.
C28_EventsSeeConsistentState ==
    /\ \A id \in Ids \ DOMAIN _approvals, origin \in Origins, type \in Types :
         LET c == add(Watched, origin, type, id, Undefined, Undefined, Undefined)
         IN Threw(c) \/ ObservedConsistent(c)
    /\ \A id \in DOMAIN _approvals :
         /\ \A waitForResult \in BOOLEAN :
              ObservedConsistent(accept(Watched, id, "v1", waitForResult))
         /\ ObservedConsistent(reject(Watched, id, "e1"))
         /\ ObservedConsistent(updateRequestState(Watched, id, "s2"))
    /\ ObservedConsistent(clear(Watched, "e1"))
    /\ clear(Watched, "e1").updates = pendingApprovalCount + 1
    /\ \A id \in FlowIds :
         /\ ObservedConsistent(startFlow(Watched, id, FALSE))
         /\ Threw(endFlow(Watched, id)) \/ ObservedConsistent(endFlow(Watched, id))

\* Two requests are pending and a flow is open: clear publishes three
\* events, and endFlow one.
C28_Witness ==
    /\ pendingApprovalCount = 2
    /\ Len(clear(Watched, "e1").observed) = 3
    /\ Len(endFlow(Watched, "f1").observed) = 1

\* The subscriber that calls add({id, origin, type}) at the k-th event of a
\* call and only looks at the controller at the others.
AddsAt(k, id, origin, type) ==
    [i \in 1..MaxEvents |->
        IF i = k THEN Reaction("add", id, origin, type) ELSE Observe]

\* Promise p of controller c belongs to a request that is registered, stored
\* and counted, and is pending.
FullyPending(c, p) ==
    \E id \in DOMAIN c._approvals :
        /\ c._approvals[id] = p
        /\ id \in DOMAIN c.pendingApprovals
        /\ OriginTypeCount(c, c.pendingApprovals[id].origin,
                           c.pendingApprovals[id].type) >= 1
        /\ c.creatorPromises[p].id = id
        /\ c.creatorPromises[p].state = "pending"

\* Promise p of controller c belongs to no request any more and was
\* rejected with error.
FullyRemoved(c, p, error) ==
    /\ \A id \in DOMAIN c._approvals : c._approvals[id] # p
    /\ c.creatorPromises[p].state = "rejected"
    /\ c.creatorPromises[p].value = error
    /\ c.creatorPromises[p].calls = 1

\* C29: a request added by a stateChange subscriber while clear is running,
\* at any of clear's events, is not half-registered when clear returns: it
\* is pending, with its registry entry, its store entry and its index count,
\* or it is removed from all three and its promise is rejected with clear's
\* error; the registry, the store and the index agree when clear returns.
C29_NoHalfRegisteredAfterClear ==
    \A k \in 1..(pendingApprovalCount + 1), id \in Ids, origin \in Origins,
       type \in Types :
        LET c == clear(Subscribed(Ctl, AddsAt(k, id, origin, type)), "e1")
            new == (Len(creatorPromises) + 1)..Len(c.creatorPromises)
        IN /\ ~Threw(c)
           /\ Consistent(Snapshot(c))
           /\ \A i \in DOMAIN c.observed : Consistent(c.observed[i])
           /\ \A p \in new : FullyPending(c, p) \/ FullyRemoved(c, p, "e1")
           /\ \A p \in DOMAIN creatorPromises :
                IF Registered(p) THEN FullyRemoved(c, p, "e1")
                ELSE c.creatorPromises[p] = creatorPromises[p]

\* Two requests are pending: a request added at clear's second event, inside
\* the reject of the second request, is rejected by clear, and one added at
\* clear's last event stays pending.
C29_Witness ==
    /\ pendingApprovalCount = 2
    /\ \E id \in Ids, origin \in Origins, type \in Types :
         LET during == clear(Subscribed(Ctl, AddsAt(2, id, origin, type)), "e1")
             after == clear(Subscribed(Ctl, AddsAt(3, id, origin, type)), "e1")
         IN /\ Len(during.creatorPromises) = 3
            /\ FullyRemoved(during, 3, "e1")
            /\ Len(after.creatorPromises) = 3
            /\ FullyPending(after, 3)

\* A call published n events, the subscriber saw each, and the last one
\* carried the state the call leaves.
Published(c, n) ==
    /\ c.updates = n
    /\ Len(c.observed) = n
    /\ n > 0 => c.observed[n] = Snapshot(c)

\* C30: add, accept, reject, updateRequestState, startFlow and endFlow
\* publish one stateChange event, carrying the new state, when they succeed;
\* clear publishes one event for each request it rejects and one more after
\* its reset, which carries the empty store; a call that throws a
\* validation, already-pending, not-found, no-flows or invalid-end error
\* publishes none.
C30_OneEventPerMutation ==
    /\ \A opts \in InvalidAddOptions :
         Published(add(Watched, opts.origin, opts.type, opts.id,
                       opts.requestData, opts.requestState, opts.expectsResult), 0)
    /\ \A id \in Ids, origin \in Origins, type \in Types :
         LET c == add(Watched, origin, type, id, Undefined, Undefined, Undefined)
         IN /\ Published(c, IF Threw(c) THEN 0 ELSE 1)
            /\ ~Threw(c) => c.pendingApprovals # pendingApprovals
    /\ \A id \in Ids :
         /\ \A waitForResult \in BOOLEAN :
              LET c == accept(Watched, id, "v1", waitForResult)
              IN Published(c, IF id \in DOMAIN _approvals THEN 1 ELSE 0)
         /\ LET c == reject(Watched, id, "e1")
            IN Published(c, IF id \in DOMAIN _approvals THEN 1 ELSE 0)
         /\ LET c == updateRequestState(Watched, id, "s3")
            IN Published(c, IF id \in DOMAIN pendingApprovals THEN 1 ELSE 0)
    /\ \A id \in FlowIds \cup {"zz"} :
         /\ Published(startFlow(Watched, id, FALSE), 1)
         /\ LET c == endFlow(Watched, id)
            IN /\ Published(c, IF Threw(c) THEN 0 ELSE 1)
               /\ ~Threw(c) => c.approvalFlows # approvalFlows
    /\ LET c == clear(Watched, "e1")
       IN /\ Published(c, pendingApprovalCount + 1)
          /\ c.observed[c.updates].pendingApprovals = EmptyMap
          /\ \A i \in 1..pendingApprovalCount :
               Cardinality(DOMAIN c.observed[i].pendingApprovals) =
                   pendingApprovalCount - i

\* A request is pending next to an open flow, after another request was
\* removed: each of the mutating calls has a case that succeeds and a case
\* that throws.
C30_Witness ==
    /\ pendingApprovalCount = 1
    /\ Len(approvalFlows) = 1
    /\ \E p \in DOMAIN creatorPromises : Removed(p)
    /\ clear(Watched, "e1").updates = 2
    /\ \E id \in Ids : accept(Watched, id, "v1", FALSE).updates = 0

\* The creator promise whose envelope carries the result callbacks of accept
\* promise k.
HolderOf(k) ==
    CHOOSE p \in DOMAIN creatorPromises :
        /\ creatorPromises[p].state = "fulfilled"
        /\ creatorPromises[p].envelope
        /\ creatorPromises[p].resultCallbacks = k

\* C31: where no creator calls success or error, a promise that accept with
\* waitForResult returned pending is pending in every reachable state,
\* whatever add, accept, reject and clear do afterwards, the same id being
\* added and accepted again included; and no add, accept, reject or clear
\* of any state changes a promise an earlier accept returned, nor do the
\* resultCallbacks of another accept.
C31_PendingUntilResultCallback ==
    /\ \A k \in DeliveredResultCallbacks :
         /\ acceptPromises[k].state = "pending"
         /\ acceptPromises[k].value = Undefined
    /\ \A k \in DOMAIN acceptPromises :
         /\ \A id \in Ids :
              /\ \A waitForResult \in BOOLEAN :
                   accept(Ctl, id, "v1", waitForResult).acceptPromises[k] =
                       acceptPromises[k]
              /\ reject(Ctl, id, "e1").acceptPromises[k] = acceptPromises[k]
              /\ \A origin \in Origins :
                   add(Ctl, origin, "t1", id, "d1", Undefined, "true").acceptPromises[k]
                       = acceptPromises[k]
         /\ clear(Ctl, "e1").acceptPromises[k] = acceptPromises[k]
         /\ \A j \in DOMAIN acceptPromises \ {k} :
              /\ ResultCallbackSuccess(Ctl, j, "v2").acceptPromises[k] =
                     acceptPromises[k]
              /\ ResultCallbackError(Ctl, j, "e2").acceptPromises[k] =
                     acceptPromises[k]

\* An acceptor's promise is pending after its id was added again and the
\* new request was accepted too.
C31_Witness ==
    \E k \in DeliveredResultCallbacks, p \in DOMAIN creatorPromises :
        /\ acceptPromises[k].state = "pending"
        /\ p > HolderOf(k)
        /\ creatorPromises[p].id = acceptPromises[k].id
        /\ creatorPromises[p].state = "fulfilled"

\* C32: over every step, a request that is pending before and after it
\* keeps its id, origin, type, requestData and expectsResult and its
\* registration; its requestState differs only if the step is
\* updateRequestState of its id; and a request that is pending before the
\* step and not after it was removed by accept or reject of its id or by
\* clear.
C32_PendingRequestFrame ==
    [][\A id \in DOMAIN pendingApprovals :
        /\ id \in DOMAIN pendingApprovals' =>
             /\ pendingApprovals'[id].id = pendingApprovals[id].id
             /\ pendingApprovals'[id].origin = pendingApprovals[id].origin
             /\ pendingApprovals'[id].type = pendingApprovals[id].type
             /\ pendingApprovals'[id].requestData = pendingApprovals[id].requestData
             /\ pendingApprovals'[id].expectsResult =
                    pendingApprovals[id].expectsResult
             /\ _approvals'[id] = _approvals[id]
             /\ pendingApprovals'[id].requestState #
                    pendingApprovals[id].requestState =>
                        UpdateRequestState(id, pendingApprovals'[id].requestState)
        /\ id \notin DOMAIN pendingApprovals' =>
             \/ \E value \in Values, waitForResult \in BOOLEAN :
                    Accept(id, value, waitForResult)
             \/ \E error \in Errors : Reject(id, error)
             \/ \E error \in Errors : Clear(error)
      ]_vars

\* A request with data is pending with an updated requestState after
\* another request was added and removed.
C32_Witness ==
    \E id \in DOMAIN pendingApprovals :
        /\ pendingApprovals[id].requestData = "d1"
        /\ pendingApprovals[id].requestState = "s2"
        /\ \E p \in DOMAIN creatorPromises : Removed(p)

ExtraOriginArgs == Origins \cup {"", Arr, Undefined}
ExtraTypeArgs == Types \cup {"", Arr, Undefined}

\* C34: has with a non-empty id returns whether the id is registered and
\* throws nothing, whatever origin and type come with it: an origin or type
\* other than the stored request's does not make it false, an origin and
\* type of another pending request do not make it true, and an origin or
\* type that has alone rejects as not a string raises no error.
C34_HasByIdIgnoresTheRest ==
    \A origin \in ExtraOriginArgs, type \in ExtraTypeArgs :
        /\ \A id \in DOMAIN _approvals :
             /\ has(Ctl, id, origin, type).thrown = NoError
             /\ has(Ctl, id, origin, type).value
        /\ \A id \in (Ids \cup {"zz"}) \ DOMAIN _approvals :
             /\ has(Ctl, id, origin, type).thrown = NoError
             /\ ~has(Ctl, id, origin, type).value
        /\ (origin = Arr \/ type = Arr) =>
             has(Ctl, Undefined, origin, type).thrown # NoError

\* One id is pending and another one is not: has of the pending id with
\* an origin and type nothing is pending for is true, and has of the other
\* id with the pending request's origin and type is false.
C34_Witness ==
    \E id \in DOMAIN _approvals, other \in Ids \ DOMAIN _approvals,
       origin \in Origins, type \in Types :
        /\ ~has(Ctl, Undefined, origin, type).value
        /\ has(Ctl, id, origin, type).value
        /\ has(Ctl, Undefined, pendingApprovals[id].origin,
               pendingApprovals[id].type).value
        /\ ~has(Ctl, other, pendingApprovals[id].origin,
                pendingApprovals[id].type).value

\* The result callbacks delivered to creators in controller c.
DeliveredIn(c) ==
    {c.creatorPromises[p].resultCallbacks : p \in
        {q \in DOMAIN c.creatorPromises :
            /\ c.creatorPromises[q].state = "fulfilled"
            /\ c.creatorPromises[q].envelope
            /\ c.creatorPromises[q].resultCallbacks # 0}}

\* C35 (as claimed): accept without waitForResult of a request created with
\* expectsResult delivers an envelope that carries result callbacks.
C35_CallbacksWithoutWaitForResult ==
    \A id \in DOMAIN _approvals :
        pendingApprovals[id].expectsResult =>
            accept(Ctl, id, "v1", FALSE).creatorPromises[_approvals[id]].resultCallbacks # 0

\* C35 (amended): accept without waitForResult of a request created with
\* expectsResult resolves the acceptor's promise at once and delivers the
\* creator an envelope {value, resultCallbacks: undefined}: the creator
\* receives no callbacks, none of the callbacks any creator holds belongs
\* to the promise this accept returned, and no creator gains a callback.
C35_NoCallbacksWithoutWaitForResult ==
    \A id \in DOMAIN _approvals, value \in AcceptValueArgs :
        pendingApprovals[id].expectsResult =>
            LET c == accept(Ctl, id, value, FALSE)
                k == Len(c.acceptPromises)
                delivered == c.creatorPromises[_approvals[id]]
            IN /\ delivered.state = "fulfilled"
               /\ delivered.envelope
               /\ delivered.value = value
               /\ delivered.resultCallbacks = 0
               /\ c.acceptPromises[k].state = "fulfilled"
               /\ k \notin DeliveredIn(c)
               /\ DeliveredIn(c) = DeliveredResultCallbacks

\* A creator holds an envelope without result callbacks, the acceptor's
\* promise of its id is resolved with undefined, and a request created with
\* expectsResult is pending.
C35_Witness ==
    /\ \E p \in DOMAIN creatorPromises, k \in DOMAIN acceptPromises :
         /\ creatorPromises[p].state = "fulfilled"
         /\ creatorPromises[p].envelope
         /\ creatorPromises[p].resultCallbacks = 0
         /\ acceptPromises[k].id = creatorPromises[p].id
         /\ acceptPromises[k].state = "fulfilled"
         /\ acceptPromises[k].value = Undefined
    /\ \E id \in DOMAIN _approvals : pendingApprovals[id].expectsResult

\* C36 (as claimed): from construction onward, whatever state the
\* constructor was given, pendingApprovalCount is the size of
\* pendingApprovals, has({id}) is true for every stored id and for no
\* other, and the index counts the stored requests of each origin and type.
C36_InvariantsFromConstruction ==
    /\ pendingApprovalCount = Cardinality(DOMAIN pendingApprovals)
    /\ \A id \in Ids :
         has(Ctl, id, Undefined, Undefined).value =
             (get(Ctl, id) # UndefinedRequest)
    /\ \A origin \in Origins, type \in Types :
         getApprovalCount(Ctl, origin, type).value =
             Cardinality(Matching(origin, type))

\* What the request operations work on, in the state and in a controller c.
RequestVars ==
    <<pendingApprovals, pendingApprovalCount, _approvals, _origins,
      creatorPromises, acceptPromises>>

RequestFields(c) ==
    <<c.pendingApprovals, c.pendingApprovalCount, c._approvals, c._origins,
      c.creatorPromises, c.acceptPromises>>

\* C37: in every reachable state startFlow and endFlow, successful or
\* failing, leave the store, the count, the index, the registry and every
\* promise as they are, and add, accept, reject, updateRequestState and
\* clear, successful or failing, leave approvalFlows as it is, so clear
\* ends no open flow.
C37_FlowsAndRequestsIndependent ==
    /\ \A id \in FlowIds \cup {"zz"} :
         /\ \A hookThrows \in BOOLEAN :
              RequestFields(startFlow(Ctl, id, hookThrows)) = RequestVars
         /\ RequestFields(endFlow(Ctl, id)) = RequestVars
    /\ \A id \in Ids :
         /\ \A origin \in Origins, type \in Types :
              add(Ctl, origin, type, id, "d1", "s1", "true").approvalFlows =
                  approvalFlows
         /\ \A waitForResult \in BOOLEAN :
              accept(Ctl, id, "v1", waitForResult).approvalFlows = approvalFlows
         /\ reject(Ctl, id, "e1").approvalFlows = approvalFlows
         /\ updateRequestState(Ctl, id, "s2").approvalFlows = approvalFlows
    /\ \A opts \in InvalidAddOptions :
         add(Ctl, opts.origin, opts.type, opts.id, opts.requestData,
             opts.requestState, opts.expectsResult).approvalFlows = approvalFlows
    /\ clear(Ctl, "e1").approvalFlows = approvalFlows

\* A flow is open next to two pending requests: clear removes both
\* requests and the flow stays.
C37_Witness ==
    /\ Len(approvalFlows) = 1
    /\ pendingApprovalCount = 2
    /\ clear(Ctl, "e1").pendingApprovalCount = 0
    /\ Len(clear(Ctl, "e1").approvalFlows) = 1

\* C38: an id whose request was removed can be added again: add with that
\* id throws only when the origin already has a request of a rate-limited
\* type, and otherwise registers a new pending promise, other than the
\* earlier one; accept and reject of the new request settle the new promise
\* and leave the earlier creator promise and every earlier acceptor's
\* promise as they were; the result callbacks of an earlier accept of the
\* id change that accept's promise and nothing else.  In every reachable
\* state the registry holds the latest promise of an id, and an earlier
\* promise of the id is removed and was settled at most once.
C38_IdReusableAfterRemoval ==
    /\ \A p \in DOMAIN creatorPromises, q \in DOMAIN creatorPromises :
         (p < q /\ creatorPromises[p].id = creatorPromises[q].id) =>
            /\ Removed(p)
            /\ creatorPromises[p].calls <= 1
            /\ Registered(q) => _approvals[creatorPromises[q].id] = q
    /\ \A p \in DOMAIN creatorPromises :
         LET id == creatorPromises[p].id
         IN (Removed(p) /\ id \notin DOMAIN _approvals) =>
              \A origin \in Origins, type \in Types :
                LET c == add(Ctl, origin, type, id, Undefined, Undefined, "true")
                    q == Len(c.creatorPromises)
                IN /\ Threw(c) => c.thrown = AlreadyPending(origin, type)
                   /\ ~Threw(c) =>
                        /\ q = Len(creatorPromises) + 1
                        /\ c._approvals[id] = q
                        /\ c.creatorPromises[q] = NewCreatorPromise(id)
                        /\ c.creatorPromises[p] = creatorPromises[p]
                        /\ \A waitForResult \in BOOLEAN :
                             LET d == accept(c, id, "v1", waitForResult)
                             IN /\ d.creatorPromises[q].state = "fulfilled"
                                /\ d.creatorPromises[p] = creatorPromises[p]
                                /\ \A k \in DOMAIN acceptPromises :
                                     d.acceptPromises[k] = acceptPromises[k]
                        /\ LET d == reject(c, id, "e1")
                           IN /\ d.creatorPromises[q].state = "rejected"
                              /\ d.creatorPromises[p] = creatorPromises[p]
                              /\ d.acceptPromises = acceptPromises
                        /\ \A k \in DeliveredResultCallbacks :
                             acceptPromises[k].id = id =>
                                LET d == ResultCallbackSuccess(c, k, "v2")
                                IN /\ d.creatorPromises = c.creatorPromises
                                   /\ d._approvals = c._approvals
                                   /\ d.pendingApprovals = c.pendingApprovals
                                   /\ \A j \in DOMAIN acceptPromises \ {k} :
                                        d.acceptPromises[j] = acceptPromises[j]

\* An id was accepted with waitForResult and added again: its first promise
\* is fulfilled and holds result callbacks, its second one is registered
\* and pending.
C38_Witness ==
    \E p \in DOMAIN creatorPromises, q \in DOMAIN creatorPromises :
        /\ p < q
        /\ creatorPromises[p].id = creatorPromises[q].id
        /\ creatorPromises[p].state = "fulfilled"
        /\ creatorPromises[p].resultCallbacks \in DOMAIN acceptPromises
        /\ Registered(q)
        /\ creatorPromises[q].state = "pending"

\* endFlow({id}) called n times in a row, stopping at the first throw.
RECURSIVE EndFlowTimes(_, _, _)
EndFlowTimes(c, id, n) ==
    IF n = 0 \/ Threw(c) THEN c
    ELSE EndFlowTimes(endFlow(c, id), id, n - 1)

\* The number of frames with this id on top of the stack, one on another.
RECURSIVE TopRun(_, _)
TopRun(flows, id) ==
    IF flows = <<>> \/ flows[Len(flows)] # id THEN 0
    ELSE 1 + TopRun(Front(flows), id)

\* C39: startFlow with a hook that returns never throws and pushes a frame
\* with its id, also when the id is on the stack already; with n frames of
\* one id on top, each of n endFlow calls with that id removes the top frame
\* alone, and a further one throws; a stack of n frames of one id is empty
\* after n endFlow calls and not before.
C39_DuplicateFlowsNestAndUnnest ==
    /\ \A id \in NestedFlowIds \cup {"zz"} :
         LET c == startFlow(Ctl, id, FALSE)
         IN /\ ~Threw(c)
            /\ c.approvalFlows = Append(approvalFlows, id)
            /\ TopRun(c.approvalFlows, id) = TopRun(approvalFlows, id) + 1
    /\ \A id \in NestedFlowIds :
         LET n == TopRun(approvalFlows, id)
         IN /\ \A m \in 0..n :
                 LET c == EndFlowTimes(Ctl, id, m)
                 IN /\ ~Threw(c)
                    /\ c.approvalFlows =
                           SubSeq(approvalFlows, 1, Len(approvalFlows) - m)
                    /\ c.approvalFlows = <<>> =>
                           (m = n /\ n = Len(approvalFlows))
            /\ Threw(EndFlowTimes(Ctl, id, n + 1))

\* Three frames with one id are on the stack.
C39_Witness == approvalFlows = <<"f1", "f1", "f1">>

\* The error add throws for an id that is registered.
AlreadyExists == Error("rpc.internal", <<"Approval request already exists.">>)

\* C40: when the show hook throws inside addAndShowApprovalRequest, the
\* caller gets the hook's error and the request stays registered as add
\* alone leaves it: a retry with the same id fails as already existing, a
\* retry with a free id and the same origin and rate-limited type fails as
\* already pending, and reject of the id removes the request and rejects
\* its promise.  When the hook throws inside startFlow, the caller gets the
\* hook's error and the frame stays on the stack: endFlow of the id pops it,
\* and a retry pushes a second frame.
C40_HookFailureKeepsRegistration ==
    /\ \A id \in Ids \ DOMAIN _approvals, origin \in Origins, type \in Types :
         LET a == add(Ctl, origin, type, id, Undefined, Undefined, Undefined)
             s == addAndShowApprovalRequest(Ctl, origin, type, id, Undefined,
                      Undefined, Undefined, TRUE)
             after == Fields(s)
             p == Len(s.creatorPromises)
         IN ~Threw(a) =>
              /\ s.thrown = HookError
              /\ after = Fields(a)
              /\ s._approvals[id] = p
              /\ s.creatorPromises[p] = NewCreatorPromise(id)
              /\ addAndShowApprovalRequest(after, origin, type, id, Undefined,
                     Undefined, Undefined, FALSE).thrown = AlreadyExists
              /\ type \notin typesExcludedFromRateLimiting =>
                   \A other \in (Ids \cup {"zz"}) \ DOMAIN s._approvals :
                      LET retry == addAndShowApprovalRequest(after, origin, type,
                                       other, Undefined, Undefined, Undefined, FALSE)
                      IN /\ retry.thrown = AlreadyPending(origin, type)
                         /\ retry.shown = 0
                         /\ Fields(retry) = after
              /\ LET r == reject(after, id, "e1")
                 IN /\ ~Threw(r)
                    /\ id \notin DOMAIN r.pendingApprovals
                    /\ r.creatorPromises[p].state = "rejected"
    /\ \A id \in FlowIds \cup {"zz"} :
         LET f == startFlow(Ctl, id, TRUE)
             after == Fields(f)
         IN /\ f.thrown = HookError
            /\ f.approvalFlows = Append(approvalFlows, id)
            /\ endFlow(after, id).thrown = NoError
            /\ endFlow(after, id).approvalFlows = approvalFlows
            /\ startFlow(after, id, FALSE).approvalFlows =
                   Append(Append(approvalFlows, id), id)

\* A request of a rate-limited type is pending next to an open flow and an
\* id is free: an addAndShowApprovalRequest of the other origin whose hook
\* throws leaves two requests pending.
C40_Witness ==
    /\ Len(approvalFlows) = 1
    /\ \E id \in Ids \ DOMAIN _approvals, origin \in Origins :
         /\ \E other \in DOMAIN pendingApprovals :
              /\ pendingApprovals[other].type = "t1"
              /\ pendingApprovals[other].origin # origin
         /\ LET s == addAndShowApprovalRequest(Ctl, origin, "t1", id, Undefined,
                         Undefined, Undefined, TRUE)
            IN /\ s.thrown = HookError
               /\ s.pendingApprovalCount = 2

====
